---- MODULE Spec2Model ----
(***************************************************************************)
(* Tolerant extraction pipeline of src/facture_v1.py: the tolerant JSON    *)
(* extractor (clean_markdown_json .. tolerant_parse_json_from_text), the   *)
(* number normalizer (normalize_number) and the per-item normalization of  *)
(* extract_order_data.                                                     *)
(*                                                                         *)
(* A text is a sequence of one-character strings.  NBSP stands for the     *)
(* single character U+00A0 and BQ for the backtick U+0060.  No text of the *)
(* model holds a backslash or a digit followed by e, E, x, o, b or _, so   *)
(* string literals carry no escape sequence and number literals are plain  *)
(* decimal ones.                                                           *)
(***************************************************************************)
EXTENDS Integers, Sequences, FiniteSets, TLC

\* ------------------------------------------------------------------------
\* Characters
\* ------------------------------------------------------------------------
NBSP == "NBSP"
\* the backtick, U+0060
BQ == "BQ"
DQ == "\""
SQ == "'"
NL == "\n"

Digits == {"0", "1", "2", "3", "4", "5", "6", "7", "8", "9"}

DigitVal(c) ==
    CASE c = "0" -> 0 [] c = "1" -> 1 [] c = "2" -> 2 [] c = "3" -> 3
      [] c = "4" -> 4 [] c = "5" -> 5 [] c = "6" -> 6 [] c = "7" -> 7
      [] c = "8" -> 8 [] c = "9" -> 9

\* str.strip() and the regex class \s: Unicode white space
PyWs == {" ", NL, "\t", "\r", NBSP}

\* white space of the json scanner
JsonWs == {" ", NL, "\t", "\r"}

UpperLetters == {"J", "S", "O", "N", "U", "L", "T", "R", "E", "F", "A", "I"}

\* re.IGNORECASE: the lower-case form of a character
Lower(c) ==
    CASE c = "J" -> "j" [] c = "S" -> "s" [] c = "O" -> "o" [] c = "N" -> "n"
      [] c = "U" -> "u" [] c = "L" -> "l" [] c = "T" -> "t" [] c = "R" -> "r"
      [] c = "E" -> "e" [] c = "F" -> "f" [] c = "A" -> "a" [] c = "I" -> "i"
      [] OTHER -> c

LowerLetters == {"a", "b", "e", "f", "i", "j", "l", "n", "o", "r", "s", "t",
                 "u", "x", "y"}

\* the regex class \w and the characters of a Python identifier
WordChars == Digits \cup LowerLetters \cup UpperLetters \cup {"_", "EACUTE"}

\* ------------------------------------------------------------------------
\* Text helpers
\* ------------------------------------------------------------------------
Slice(s, i, j) == IF i > j THEN << >> ELSE SubSeq(s, i, j)

DropFirst(s, n) == Slice(s, n + 1, Len(s))

StartsWithAt(s, i, p) ==
    /\ i + Len(p) - 1 <= Len(s)
    /\ \A k \in 1..Len(p) : s[i + k - 1] = p[k]

StartsWithAtIgnoreCase(s, i, p) ==
    /\ i + Len(p) - 1 <= Len(s)
    /\ \A k \in 1..Len(p) : Lower(s[i + k - 1]) = p[k]

Contains(s, c) == \E i \in 1..Len(s) : s[i] = c

\* index of the first character at or after i that is not in ws (Len+1 if none)
RECURSIVE SkipSet(_, _, _)
SkipSet(s, i, ws) ==
    IF i <= Len(s) /\ s[i] \in ws THEN SkipSet(s, i + 1, ws) ELSE i

\* index of the last character at or before i that is not in ws (0 if none)
RECURSIVE SkipSetBack(_, _, _)
SkipSetBack(s, i, ws) ==
    IF i >= 1 /\ s[i] \in ws THEN SkipSetBack(s, i - 1, ws) ELSE i

\* str.strip()
Strip(s) == Slice(s, SkipSet(s, 1, PyWs), SkipSetBack(s, Len(s), PyWs))

\* str.replace(a, b) for a single character a and a text b
RECURSIVE Replace(_, _, _)
Replace(s, a, b) ==
    IF s = << >> THEN << >>
    ELSE (IF Head(s) = a THEN b ELSE <<Head(s)>>) \o Replace(Tail(s), a, b)

\* re.sub(r'[^\d\.\-]', '', s)
RECURSIVE KeepNumeric(_)
KeepNumeric(s) ==
    IF s = << >> THEN << >>
    ELSE (IF Head(s) \in Digits \cup {".", "-"} THEN <<Head(s)>> ELSE << >>)
         \o KeepNumeric(Tail(s))

\* ------------------------------------------------------------------------
\* Robust JSON parsing: the text rewriting helpers
\* ------------------------------------------------------------------------
Fence == <<BQ, BQ, BQ>>
JsonTag == <<"j", "s", "o", "n">>

\* the leading fence pattern without re.IGNORECASE
StripLeadingFenceCaseSensitive(t) ==
    IF ~StartsWithAt(t, 1, Fence) THEN t
    ELSE LET a == IF StartsWithAt(t, 4, JsonTag) THEN 8 ELSE 4
         IN  Slice(t, SkipSet(t, a, PyWs), Len(t))

\* re.sub(r'^BQBQBQ(?:json)?\s*', '', t, flags=re.IGNORECASE)
StripLeadingFence(t) ==
    IF ~StartsWithAt(t, 1, Fence) THEN t
    ELSE LET a == IF StartsWithAtIgnoreCase(t, 4, JsonTag) THEN 8 ELSE 4
         IN  Slice(t, SkipSet(t, a, PyWs), Len(t))

\* re.sub(r'\s*BQBQBQ$', '', t) on a stripped text: the match is the final fence
\* with the white space directly before it
StripTrailingFence(t) ==
    IF Len(t) >= 3 /\ StartsWithAt(t, Len(t) - 2, Fence)
    THEN Slice(t, 1, SkipSetBack(t, Len(t) - 3, PyWs))
    ELSE t

clean_markdown_json(text) ==
    Strip(StripTrailingFence(Strip(StripLeadingFence(Strip(text)))))

\* positions of the leftmost match of (\{.*\}|\[.*\]) with re.DOTALL
LastIndexOf(s, c) ==
    IF Contains(s, c) THEN CHOOSE i \in 1..Len(s) :
                              s[i] = c /\ \A j \in (i + 1)..Len(s) : s[j] # c
    ELSE 0

CandidateStarts(t) ==
    {i \in 1..Len(t) : \/ t[i] = "{" /\ LastIndexOf(t, "}") > i
                       \/ t[i] = "[" /\ LastIndexOf(t, "]") > i}

Min(S) == CHOOSE x \in S : \A y \in S : x <= y

HasCandidate(text) == CandidateStarts(clean_markdown_json(text)) # {}

\* the candidate pattern with lazy quantifiers: up to the first closer
ExtractLazyCandidate(text) ==
    LET t == clean_markdown_json(text)
        i == Min(CandidateStarts(t))
        closer == IF t[i] = "{" THEN "}" ELSE "]"
        j == Min({k \in (i + 1)..Len(t) : t[k] = closer})
    IN  Strip(Slice(t, i, j))

\* extract_first_json_candidate; defined when HasCandidate(text), the other
\* case raises ValueError
extract_first_json_candidate(text) ==
    LET t == clean_markdown_json(text)
        i == Min(CandidateStarts(t))
        j == IF t[i] = "{" THEN LastIndexOf(t, "}") ELSE LastIndexOf(t, "]")
    IN  Strip(Slice(t, i, j))

\* re.sub(r',\s*(\}|])', r'\1', s)
RECURSIVE RemoveCommasFrom(_, _)
RemoveCommasFrom(s, i) ==
    IF i > Len(s) THEN << >>
    ELSE LET k == SkipSet(s, i + 1, PyWs)
         IN  IF s[i] = "," /\ k <= Len(s) /\ s[k] \in {"}", "]"}
             THEN <<s[k]>> \o RemoveCommasFrom(s, k + 1)
             ELSE <<s[i]>> \o RemoveCommasFrom(s, i + 1)

remove_trailing_commas(s) == RemoveCommasFrom(s, 1)

\* re.sub(r"(?<!\\)\'", '"', candidate)
SingleToDoubleQuotes(s) ==
    [i \in 1..Len(s) |->
        IF s[i] = SQ /\ (i = 1 \/ s[i - 1] # "\\") THEN DQ ELSE s[i]]

\* ------------------------------------------------------------------------
\* Values.  A value is a record [t, v]: t is the Python type, v the payload.
\* A finite number is the pair <<m, e>> standing for m * 10^e, with m not
\* divisible by 10 (zero is <<0, 0>>), so equal numbers are equal pairs.
\* A dict is the sequence of its <<key, value>> pairs in insertion order.
\* ------------------------------------------------------------------------
RECURSIVE Norm(_, _)
Norm(m, e) ==
    IF m = 0 THEN <<0, 0>>
    ELSE IF m % 10 = 0 THEN Norm(m \div 10, e + 1) ELSE <<m, e>>

None == [t |-> "None", v |-> << >>]
PyBool(b) == [t |-> "bool", v |-> <<b>>]
PyInt(m, e) == [t |-> "int", v |-> Norm(m, e)]
PyFloat(m, e) == [t |-> "float", v |-> Norm(m, e)]
\* nan, inf, -inf
PyNonFinite(name) == [t |-> "nonfinite", v |-> <<name>>]
PyStr(chars) == [t |-> "str", v |-> chars]
PyList(elems) == [t |-> "list", v |-> elems]
PyDict(pairs) == [t |-> "dict", v |-> pairs]
PySet(elems) == [t |-> "set", v |-> elems]

Failure == [ok |-> FALSE, v |-> None, i |-> 0]
Success(val, next) == [ok |-> TRUE, v |-> val, i |-> next]

\* d[k] = val on a dict: an existing key keeps its position
DictPut(pairs, k, val) ==
    IF \E n \in 1..Len(pairs) : pairs[n][1] = k
    THEN [n \in 1..Len(pairs) |->
             IF pairs[n][1] = k THEN <<k, val>> ELSE pairs[n]]
    ELSE Append(pairs, <<k, val>>)

\* the integer written by the digits s[i..j]
RECURSIVE DigitsValue(_, _, _)
DigitsValue(s, i, j) ==
    IF i > j THEN 0 ELSE DigitsValue(s, i, j - 1) * 10 + DigitVal(s[j])

\* ------------------------------------------------------------------------
\* json.loads, as try_json_loads calls it
\* ------------------------------------------------------------------------
CharAt(s, i) == IF i >= 1 /\ i <= Len(s) THEN s[i] ELSE "EOF"

\* NUMBER_RE = (-?(?:0|[1-9]\d*))(\.\d+)?  at index i
JsonNumber(s, i) ==
    LET neg == CharAt(s, i) = "-"
        a == IF neg THEN i + 1 ELSE i
        intEnd == IF CharAt(s, a) = "0" THEN a + 1 ELSE SkipSet(s, a, Digits)
        fracEnd == SkipSet(s, intEnd + 1, Digits)
        hasFrac == CharAt(s, intEnd) = "." /\ fracEnd > intEnd + 1
        sign == IF neg THEN -1 ELSE 1
    IN  IF CharAt(s, a) \notin Digits THEN Failure
        ELSE IF hasFrac
        THEN Success(PyFloat(sign * (DigitsValue(s, a, intEnd - 1)
                                       * 10 ^ (fracEnd - intEnd - 1)
                                     + DigitsValue(s, intEnd + 1, fracEnd - 1)),
                             -(fracEnd - intEnd - 1)),
                     fracEnd)
        ELSE Success(PyInt(sign * DigitsValue(s, a, intEnd - 1), 0), intEnd)

\* py_scanstring in strict mode, i is the index after the opening quote
RECURSIVE JsonString(_, _, _)
JsonString(s, i, acc) ==
    IF i > Len(s) THEN Failure
    ELSE IF s[i] = DQ THEN Success(PyStr(acc), i + 1)
    ELSE IF s[i] \in {NL, "\t", "\r"} THEN Failure
    ELSE JsonString(s, i + 1, Append(acc, s[i]))

JsonWord(s, i, word, val) ==
    IF StartsWithAt(s, i, word) THEN Success(val, i + Len(word)) ELSE Failure

RECURSIVE scan_once(_, _)
RECURSIVE JSONObjectMembers(_, _, _)
RECURSIVE JSONArrayElements(_, _, _)

\* JSONObject, i is the index after the opening brace
JSONObject(s, i) ==
    LET a == SkipSet(s, i, JsonWs)
    IN  IF CharAt(s, a) = "}" THEN Success(PyDict(<< >>), a + 1)
        ELSE IF CharAt(s, a) = DQ THEN JSONObjectMembers(s, a + 1, << >>)
        ELSE Failure

\* one key : value pair, i is the index after the opening quote of the key
JSONObjectMembers(s, i, pairs) ==
    LET key == JsonString(s, i, << >>)
        colon == SkipSet(s, key.i, JsonWs)
        val == scan_once(s, SkipSet(s, colon + 1, JsonWs))
        sep == SkipSet(s, val.i, JsonWs)
        nextKey == SkipSet(s, sep + 1, JsonWs)
    IN  IF ~key.ok THEN Failure
        ELSE IF CharAt(s, colon) # ":" THEN Failure
        ELSE IF ~val.ok THEN Failure
        ELSE IF CharAt(s, sep) = "}"
             THEN Success(PyDict(DictPut(pairs, key.v, val.v)), sep + 1)
        ELSE IF CharAt(s, sep) = "," /\ CharAt(s, nextKey) = DQ
             THEN JSONObjectMembers(s, nextKey + 1,
                                    DictPut(pairs, key.v, val.v))
        ELSE Failure

\* JSONArray, i is the index after the opening bracket
JSONArray(s, i) ==
    LET a == SkipSet(s, i, JsonWs)
    IN  IF CharAt(s, a) = "]" THEN Success(PyList(<< >>), a + 1)
        ELSE JSONArrayElements(s, a, << >>)

JSONArrayElements(s, i, elems) ==
    LET val == scan_once(s, i)
        sep == SkipSet(s, val.i, JsonWs)
    IN  IF ~val.ok THEN Failure
        ELSE IF CharAt(s, sep) = "]"
             THEN Success(PyList(Append(elems, val.v)), sep + 1)
        ELSE IF CharAt(s, sep) = ","
             THEN JSONArrayElements(s, SkipSet(s, sep + 1, JsonWs),
                                    Append(elems, val.v))
        ELSE Failure

scan_once(s, i) ==
    LET c == CharAt(s, i)
    IN  IF c = DQ THEN JsonString(s, i + 1, << >>)
        ELSE IF c = "{" THEN JSONObject(s, i + 1)
        ELSE IF c = "[" THEN JSONArray(s, i + 1)
        ELSE IF c = "n" THEN JsonWord(s, i, <<"n", "u", "l", "l">>, None)
        ELSE IF c = "t"
             THEN JsonWord(s, i, <<"t", "r", "u", "e">>, PyBool(TRUE))
        ELSE IF c = "f"
             THEN JsonWord(s, i, <<"f", "a", "l", "s", "e">>, PyBool(FALSE))
        ELSE IF JsonNumber(s, i).ok THEN JsonNumber(s, i)
        ELSE IF c = "N"
             THEN JsonWord(s, i, <<"N", "a", "N">>, PyNonFinite("nan"))
        ELSE IF c = "I"
             THEN JsonWord(s, i,
                           <<"I", "n", "f", "i", "n", "i", "t", "y">>,
                           PyNonFinite("inf"))
        ELSE IF c = "-"
             THEN JsonWord(s, i,
                           <<"-", "I", "n", "f", "i", "n", "i", "t", "y">>,
                           PyNonFinite("-inf"))
        ELSE Failure

\* JSONDecoder.decode: one value between white space, nothing after it
json_loads(s) ==
    LET r == scan_once(s, SkipSet(s, 1, JsonWs))
    IN  IF r.ok /\ SkipSet(s, r.i, JsonWs) = Len(s) + 1 THEN r ELSE Failure

try_json_loads(s) == json_loads(s)

\* ------------------------------------------------------------------------
\* ast.literal_eval, as try_ast_literal_eval calls it: the Python literals
\* that the characters of the model can write (numbers, strings with their
\* prefixes and implicit concatenation, None/True/False, lists, dicts, sets
\* and a top-level tuple); every other expression raises
\* ------------------------------------------------------------------------
PyBytes(chars) == [t |-> "bytes", v |-> chars]
PyTuple(elems) == [t |-> "tuple", v |-> elems]

\* white space between tokens: inside brackets a line end is white space too
PyTopWs == {" ", "\t"}
PyInnerWs == {" ", "\t", NL, "\r"}

Unhashable(val) == val.t \in {"list", "dict", "set"}

\* the number a key hashes as: True == 1 == 1.0
KeyOf(val) ==
    IF val.t \in {"int", "float"} THEN [t |-> "num", v |-> val.v]
    ELSE IF val.t = "bool"
         THEN [t |-> "num", v |-> IF val.v[1] THEN <<1, 0>> ELSE <<0, 0>>]
    ELSE val

PyDictPut(pairs, k, val) ==
    IF \E n \in 1..Len(pairs) : KeyOf(pairs[n][1]) = KeyOf(k)
    THEN [n \in 1..Len(pairs) |->
             IF KeyOf(pairs[n][1]) = KeyOf(k)
             THEN <<pairs[n][1], val>> ELSE pairs[n]]
    ELSE Append(pairs, <<k, val>>)

PySetAdd(elems, val) ==
    IF \E n \in 1..Len(elems) : KeyOf(elems[n]) = KeyOf(val)
    THEN elems ELSE Append(elems, val)

\* a decimal integer or float literal at index i
PyNumber(s, i) ==
    LET intEnd == SkipSet(s, i, Digits)
        hasDot == CharAt(s, intEnd) = "."
        fracEnd == IF hasDot THEN SkipSet(s, intEnd + 1, Digits) ELSE intEnd
        fracLen == fracEnd - intEnd - 1
        leadingZero == /\ intEnd - i > 1
                       /\ s[i] = "0"
                       /\ \E k \in i..(intEnd - 1) : s[k] # "0"
    IN  IF hasDot
        THEN IF (intEnd = i /\ fracLen = 0) \/ CharAt(s, fracEnd) \in WordChars
             THEN Failure
             ELSE Success(PyFloat(DigitsValue(s, i, intEnd - 1) * 10 ^ fracLen
                                  + DigitsValue(s, intEnd + 1, fracEnd - 1),
                                  -fracLen),
                          fracEnd)
        ELSE IF intEnd = i \/ leadingZero \/ CharAt(s, intEnd) \in WordChars
             THEN Failure
             ELSE Success(PyInt(DigitsValue(s, i, intEnd - 1), 0), intEnd)

\* index of the closing quote(s) q..q of length n at or after i, 0 if none;
\* a one-quote string ends at the line end
RECURSIVE PyQuoteEnd(_, _, _, _)
PyQuoteEnd(s, i, q, n) ==
    IF i + n - 1 > Len(s) THEN 0
    ELSE IF \A k \in 0..(n - 1) : s[i + k] = q THEN i
    ELSE IF n = 1 /\ s[i] \in {NL, "\r"} THEN 0
    ELSE PyQuoteEnd(s, i + 1, q, n)

\* one string literal whose opening quote is at index i; kind is the type
\* its prefix gives it
PyOneString(s, i, kind) ==
    LET q == s[i]
        n == IF CharAt(s, i + 1) = q /\ CharAt(s, i + 2) = q THEN 3 ELSE 1
        close == PyQuoteEnd(s, i + n, q, n)
        chars == Slice(s, i + n, close - 1)
    IN  IF close = 0 \/ kind = "fstring" THEN Failure
        ELSE IF kind = "bytes" /\ Contains(chars, NBSP) THEN Failure
        ELSE Success([t |-> kind, v |-> chars], close + n)

StringPrefixKind(word) ==
    LET w == [k \in 1..Len(word) |-> Lower(word[k])]
    IN  IF w \in {<<"u">>, <<"r">>} THEN "str"
        ELSE IF w \in {<<"b">>, <<"b", "r">>, <<"r", "b">>} THEN "bytes"
        ELSE IF w \in {<<"f">>, <<"f", "r">>, <<"r", "f">>} THEN "fstring"
        ELSE "none"

\* a string literal, with its prefix, at index i
PyStringAt(s, i) ==
    LET wordEnd == SkipSet(s, i, WordChars)
        kind == IF wordEnd = i THEN "str"
                ELSE StringPrefixKind(Slice(s, i, wordEnd - 1))
    IN  IF CharAt(s, wordEnd) \notin {DQ, SQ} \/ kind = "none" THEN Failure
        ELSE PyOneString(s, wordEnd, kind)

\* adjacent string literals are concatenated
RECURSIVE PyStrings(_, _, _, _)
PyStrings(s, i, ws, acc) ==
    LET nxt == PyStringAt(s, SkipSet(s, i, ws))
    IN  IF CharAt(s, SkipSet(s, SkipSet(s, i, ws), WordChars)) \notin {DQ, SQ}
        THEN Success(acc, i)
        ELSE IF ~nxt.ok \/ nxt.v.t # acc.t THEN Failure
        ELSE PyStrings(s, nxt.i, ws, [t |-> acc.t, v |-> acc.v \o nxt.v.v])

PyName(word) ==
    IF word = <<"N", "o", "n", "e">> THEN Success(None, 0)
    ELSE IF word = <<"T", "r", "u", "e">> THEN Success(PyBool(TRUE), 0)
    ELSE IF word = <<"F", "a", "l", "s", "e">> THEN Success(PyBool(FALSE), 0)
    ELSE Failure

RECURSIVE PyAtom(_, _, _)
RECURSIVE PyListItems(_, _, _)
RECURSIVE PyDictItems(_, _, _)
RECURSIVE PySetItems(_, _, _)

\* the expression at index i
PyAtom(s, i, ws) ==
    LET c == CharAt(s, i)
        wordEnd == SkipSet(s, i, WordChars)
        first == PyStringAt(s, i)
        operand == PyNumber(s, SkipSet(s, i + 1, ws))
        inner == SkipSet(s, i + 1, PyInnerWs)
        head == PyAtom(s, inner, PyInnerWs)
    IN  IF c = "[" THEN PyListItems(s, inner, << >>)
        ELSE IF c = "{"
        THEN IF CharAt(s, inner) = "}" THEN Success(PyDict(<< >>), inner + 1)
             ELSE IF ~head.ok THEN Failure
             ELSE IF CharAt(s, SkipSet(s, head.i, PyInnerWs)) = ":"
                  THEN PyDictItems(s, inner, << >>)
             ELSE PySetItems(s, inner, << >>)
        ELSE IF c = "-"
        THEN IF operand.ok
             THEN Success([t |-> operand.v.t,
                           v |-> Norm(-operand.v.v[1], operand.v.v[2])],
                          operand.i)
             ELSE Failure
        ELSE IF c \in Digits \cup {"."} THEN PyNumber(s, i)
        ELSE IF CharAt(s, wordEnd) \in {DQ, SQ}
        THEN IF first.ok THEN PyStrings(s, first.i, ws, first.v) ELSE Failure
        ELSE IF wordEnd > i
        THEN IF PyName(Slice(s, i, wordEnd - 1)).ok
             THEN Success(PyName(Slice(s, i, wordEnd - 1)).v, wordEnd)
             ELSE Failure
        ELSE Failure

\* the elements of a list display, i is the index of the next token
PyListItems(s, i, elems) ==
    LET val == PyAtom(s, i, PyInnerWs)
        sep == SkipSet(s, val.i, PyInnerWs)
    IN  IF CharAt(s, i) = "]" THEN Success(PyList(elems), i + 1)
        ELSE IF ~val.ok THEN Failure
        ELSE IF CharAt(s, sep) = "]"
             THEN Success(PyList(Append(elems, val.v)), sep + 1)
        ELSE IF CharAt(s, sep) = ","
             THEN PyListItems(s, SkipSet(s, sep + 1, PyInnerWs),
                              Append(elems, val.v))
        ELSE Failure

\* the key: value pairs of a dict display
PyDictItems(s, i, pairs) ==
    LET key == PyAtom(s, i, PyInnerWs)
        colon == SkipSet(s, key.i, PyInnerWs)
        val == PyAtom(s, SkipSet(s, colon + 1, PyInnerWs), PyInnerWs)
        sep == SkipSet(s, val.i, PyInnerWs)
    IN  IF CharAt(s, i) = "}" THEN Success(PyDict(pairs), i + 1)
        ELSE IF ~key.ok \/ CharAt(s, colon) # ":" THEN Failure
        ELSE IF ~val.ok \/ Unhashable(key.v) THEN Failure
        ELSE IF CharAt(s, sep) = "}"
             THEN Success(PyDict(PyDictPut(pairs, key.v, val.v)), sep + 1)
        ELSE IF CharAt(s, sep) = ","
             THEN PyDictItems(s, SkipSet(s, sep + 1, PyInnerWs),
                              PyDictPut(pairs, key.v, val.v))
        ELSE Failure

\* the elements of a set display
PySetItems(s, i, elems) ==
    LET val == PyAtom(s, i, PyInnerWs)
        sep == SkipSet(s, val.i, PyInnerWs)
    IN  IF CharAt(s, i) = "}" THEN Success(PySet(elems), i + 1)
        ELSE IF ~val.ok \/ Unhashable(val.v) THEN Failure
        ELSE IF CharAt(s, sep) = "}"
             THEN Success(PySet(PySetAdd(elems, val.v)), sep + 1)
        ELSE IF CharAt(s, sep) = ","
             THEN PySetItems(s, SkipSet(s, sep + 1, PyInnerWs),
                             PySetAdd(elems, val.v))
        ELSE Failure

\* the top-level expression list: several expressions make a tuple
RECURSIVE PyTopItems(_, _, _)
PyTopItems(s, i, elems) ==
    LET val == PyAtom(s, i, PyTopWs)
        sep == SkipSet(s, val.i, PyTopWs)
    IN  IF i > Len(s) THEN Success(PyTuple(elems), i)
        ELSE IF ~val.ok THEN Failure
        ELSE IF sep > Len(s)
             THEN Success(IF elems = << >> THEN val.v
                          ELSE PyTuple(Append(elems, val.v)), sep)
        ELSE IF CharAt(s, sep) = ","
             THEN PyTopItems(s, SkipSet(s, sep + 1, PyTopWs),
                             Append(elems, val.v))
        ELSE Failure

ast_literal_eval(s) ==
    IF SkipSet(s, 1, PyTopWs) > Len(s) THEN Failure
    ELSE PyTopItems(s, SkipSet(s, 1, PyTopWs), << >>)

\* re.sub(r'\bword\b', repl, s, flags=re.IGNORECASE)
RECURSIVE SubWordFrom(_, _, _, _)
SubWordFrom(s, i, word, repl) ==
    IF i > Len(s) THEN << >>
    ELSE IF /\ StartsWithAtIgnoreCase(s, i, word)
            /\ CharAt(s, i - 1) \notin WordChars
            /\ CharAt(s, i + Len(word)) \notin WordChars
         THEN repl \o SubWordFrom(s, i + Len(word), word, repl)
         ELSE <<s[i]>> \o SubWordFrom(s, i + 1, word, repl)

SubWord(s, word, repl) == SubWordFrom(s, 1, word, repl)

try_ast_literal_eval(s) ==
    LET s1 == SubWord(s, <<"n", "u", "l", "l">>, <<"N", "o", "n", "e">>)
        s2 == SubWord(s1, <<"t", "r", "u", "e">>, <<"T", "r", "u", "e">>)
        s3 == SubWord(s2, <<"f", "a", "l", "s", "e">>,
                      <<"F", "a", "l", "s", "e">>)
    IN  ast_literal_eval(s3)

\* ------------------------------------------------------------------------
\* Numbers.  PyFloat(m, e) is the double nearest to m * 10^e.
\* ------------------------------------------------------------------------
Abs(n) == IF n < 0 THEN -n ELSE n

RECURSIVE NumDigits(_)
NumDigits(n) == IF Abs(n) < 10 THEN 1 ELSE 1 + NumDigits(Abs(n) \div 10)

\* sys.float_info.max is 1.7976931348623157e308: 309 integer digits
FloatMaxDigits == 309
FloatMaxLeading == 179769313

\* does m * 10^e lie beyond the largest double (m of at most 9 digits)
BeyondFloatMax(m, e) ==
    \/ NumDigits(m) + e > FloatMaxDigits
    \/ /\ NumDigits(m) + e = FloatMaxDigits
       /\ Abs(m) * 10 ^ (9 - NumDigits(m)) > FloatMaxLeading

Raised(exc) == [ok |-> FALSE, exc |-> exc, v |-> None]
Value(val) == [ok |-> TRUE, exc |-> "", v |-> val]

\* float(x) for a native number x (int, bool or float)
FloatOfNumber(x) ==
    IF x.t = "int"
    THEN IF BeyondFloatMax(x.v[1], x.v[2]) THEN Raised("OverflowError")
         ELSE Value(PyFloat(x.v[1], x.v[2]))
    ELSE IF x.t = "bool"
    THEN Value(PyFloat(IF x.v[1] THEN 1 ELSE 0, 0))
    ELSE Value(x)

\* float(s) for a text s: white space around, a sign, then inf, infinity,
\* nan or a decimal number
FloatOfText(s) ==
    LET t == Strip(s)
        signed == CharAt(t, 1) \in {"+", "-"}
        sign == IF CharAt(t, 1) = "-" THEN -1 ELSE 1
        body == IF signed THEN DropFirst(t, 1) ELSE t
        word == [k \in 1..Len(body) |-> Lower(body[k])]
        intEnd == SkipSet(body, 1, Digits)
        hasDot == CharAt(body, intEnd) = "."
        fracEnd == IF hasDot THEN SkipSet(body, intEnd + 1, Digits)
                   ELSE intEnd
        fracLen == fracEnd - intEnd - 1
    IN  IF word \in {<<"i", "n", "f">>,
                     <<"i", "n", "f", "i", "n", "i", "t", "y">>}
        THEN Value(PyNonFinite(IF sign = 1 THEN "inf" ELSE "-inf"))
        ELSE IF word = <<"n", "a", "n">> THEN Value(PyNonFinite("nan"))
        ELSE IF fracEnd # Len(body) + 1 THEN Raised("ValueError")
        ELSE IF hasDot
        THEN IF intEnd = 1 /\ fracLen = 0 THEN Raised("ValueError")
             ELSE Value(PyFloat(sign * (DigitsValue(body, 1, intEnd - 1)
                                          * 10 ^ fracLen
                                        + DigitsValue(body, intEnd + 1,
                                                      fracEnd - 1)),
                                -fracLen))
        ELSE IF intEnd = 1 THEN Raised("ValueError")
        ELSE Value(PyFloat(sign * DigitsValue(body, 1, intEnd - 1), 0))

\* truth value of None or a float: None, 0.0 and -0.0 are false
Truthy(x) == x.t # "None" /\ x.v # <<0, 0>>

\* int(x) rounding down instead of toward zero
IntOfFloatFloor(x) ==
    IF x.t = "nonfinite"
    THEN Raised(IF x.v[1] = "nan" THEN "ValueError" ELSE "OverflowError")
    ELSE IF x.v[2] >= 0 THEN Value(PyInt(x.v[1], x.v[2]))
    ELSE Value(PyInt(x.v[1] \div 10 ^ (-x.v[2]), 0))

\* int(x) for a float x: truncation toward zero
IntOfFloat(x) ==
    LET m == x.v[1]
        e == x.v[2]
        q == Abs(m) \div 10 ^ (-e)
    IN  IF x.t = "nonfinite"
        THEN Raised(IF x.v[1] = "nan" THEN "ValueError" ELSE "OverflowError")
        ELSE IF e >= 0 THEN Value(PyInt(m, e))
        ELSE Value(PyInt(IF m < 0 THEN -q ELSE q, 0))

\* ------------------------------------------------------------------------
\* str() and json.dumps of a value.  The strings of a value written out
\* hold ASCII letters, digits and punctuation only, and not both quotes, so
\* neither writes an escape sequence; a float is one that repr writes
\* without exponent (0 or 1e-4 <= |x| < 1e16).
\* ------------------------------------------------------------------------
DigitChar(d) == CHOOSE c \in Digits : DigitVal(c) = d

RECURSIVE NatText(_)
NatText(n) ==
    IF n < 10 THEN <<DigitChar(n)>>
    ELSE NatText(n \div 10) \o <<DigitChar(n % 10)>>

Zeros(k) == [i \in 1..k |-> "0"]

SignText(m) == IF m < 0 THEN <<"-">> ELSE << >>

\* str(n) for the int m * 10^e
IntText(m, e) ==
    SignText(m) \o NatText(Abs(m)) \o (IF m = 0 THEN << >> ELSE Zeros(e))

\* repr(x) for the float m * 10^e
FloatText(m, e) ==
    LET d == NatText(Abs(m))
        n == Len(d)
        k == -e
    IN  SignText(m) \o
        (IF e >= 0 THEN d \o (IF m = 0 THEN << >> ELSE Zeros(e)) \o <<".", "0">>
         ELSE IF n > k
         THEN SubSeq(d, 1, n - k) \o <<".">> \o SubSeq(d, n - k + 1, n)
         ELSE <<"0", ".">> \o Zeros(k - n) \o d)

NonFiniteText(name) ==
    CASE name = "nan" -> <<"n", "a", "n">>
      [] name = "inf" -> <<"i", "n", "f">>
      [] name = "-inf" -> <<"-", "i", "n", "f">>

\* repr of a str: single quotes unless it holds one and no double quote
StrRepr(chars) ==
    LET q == IF Contains(chars, SQ) /\ ~Contains(chars, DQ) THEN DQ ELSE SQ
    IN  <<q>> \o chars \o <<q>>

RECURSIVE PyRepr(_)
RECURSIVE ReprJoin(_, _)
RECURSIVE ReprPairs(_, _)

\* the reprs of elems[i..] separated by ", "
ReprJoin(elems, i) ==
    IF i > Len(elems) THEN << >>
    ELSE PyRepr(elems[i]) \o
         (IF i < Len(elems) THEN <<",", " ">> ELSE << >>) \o
         ReprJoin(elems, i + 1)

\* key: value of pairs[i..] separated by ", "
ReprPairs(pairs, i) ==
    IF i > Len(pairs) THEN << >>
    ELSE PyRepr(pairs[i][1]) \o <<":", " ">> \o PyRepr(pairs[i][2]) \o
         (IF i < Len(pairs) THEN <<",", " ">> ELSE << >>) \o
         ReprPairs(pairs, i + 1)

\* repr(val)
PyRepr(val) ==
    CASE val.t = "None" -> <<"N", "o", "n", "e">>
      [] val.t = "bool" -> IF val.v[1] THEN <<"T", "r", "u", "e">>
                           ELSE <<"F", "a", "l", "s", "e">>
      [] val.t = "int" -> IntText(val.v[1], val.v[2])
      [] val.t = "float" -> FloatText(val.v[1], val.v[2])
      [] val.t = "nonfinite" -> NonFiniteText(val.v[1])
      [] val.t = "str" -> StrRepr(val.v)
      [] val.t = "bytes" -> <<"b">> \o StrRepr(val.v)
      [] val.t = "list" -> <<"[">> \o ReprJoin(val.v, 1) \o <<"]">>
      [] val.t = "tuple" ->
            <<"(">> \o ReprJoin(val.v, 1) \o
            (IF Len(val.v) = 1 THEN <<",">> ELSE << >>) \o <<")">>
      [] val.t = "set" ->
            IF val.v = << >> THEN <<"s", "e", "t", "(", ")">>
            ELSE <<"{">> \o ReprJoin(val.v, 1) \o <<"}">>
      [] val.t = "dict" -> <<"{">> \o ReprPairs(val.v, 1) \o <<"}">>

\* line 123: str(s)
PyStrOf(s) == IF s.t = "str" THEN s.v ELSE PyRepr(s)

JsonNonFiniteText(name) ==
    CASE name = "nan" -> <<"N", "a", "N">>
      [] name = "inf" -> <<"I", "n", "f", "i", "n", "i", "t", "y">>
      [] name = "-inf" -> <<"-", "I", "n", "f", "i", "n", "i", "t", "y">>

RECURSIVE json_dumps(_)
RECURSIVE DumpsJoin(_, _)
RECURSIVE DumpsPairs(_, _)

DumpsJoin(elems, i) ==
    IF i > Len(elems) THEN << >>
    ELSE json_dumps(elems[i]) \o
         (IF i < Len(elems) THEN <<",", " ">> ELSE << >>) \o
         DumpsJoin(elems, i + 1)

DumpsPairs(pairs, i) ==
    IF i > Len(pairs) THEN << >>
    ELSE <<DQ>> \o pairs[i][1].v \o <<DQ, ":", " ">> \o
         json_dumps(pairs[i][2]) \o
         (IF i < Len(pairs) THEN <<",", " ">> ELSE << >>) \o
         DumpsPairs(pairs, i + 1)

\* json.dumps(val) with its default separators, for str keys
json_dumps(val) ==
    CASE val.t = "None" -> <<"n", "u", "l", "l">>
      [] val.t = "bool" -> IF val.v[1] THEN <<"t", "r", "u", "e">>
                           ELSE <<"f", "a", "l", "s", "e">>
      [] val.t = "int" -> IntText(val.v[1], val.v[2])
      [] val.t = "float" -> FloatText(val.v[1], val.v[2])
      [] val.t = "nonfinite" -> JsonNonFiniteText(val.v[1])
      [] val.t = "str" -> <<DQ>> \o val.v \o <<DQ>>
      [] val.t \in {"list", "tuple"} ->
            <<"[">> \o DumpsJoin(val.v, 1) \o <<"]">>
      [] val.t = "dict" -> <<"{">> \o DumpsPairs(val.v, 1) \o <<"}">>

\* ------------------------------------------------------------------------
\* normalize_number
\* ------------------------------------------------------------------------
\* the separators read the English way when both are present
NumberTextEnglish(text) ==
    LET s1 == Replace(Replace(Strip(text), NBSP, <<" ">>), " ", << >>)
        s2 == IF Contains(s1, ",") /\ Contains(s1, ".")
              THEN Replace(s1, ",", << >>)
              ELSE Replace(s1, ",", <<".">>)
    IN  KeepNumeric(s2)

\* lines 123-128: the cleaned text
NumberText(text) ==
    LET s1 == Replace(Replace(Strip(text), NBSP, <<" ">>), " ", << >>)
        s2 == IF Contains(s1, ",") /\ Contains(s1, ".")
              THEN Replace(Replace(s1, ".", << >>), ",", <<".">>)
              ELSE Replace(s1, ",", <<".">>)
    IN  KeepNumeric(s2)

normalize_number(s) ==
    IF s.t = "None" THEN Value(None)
    ELSE IF s.t \in {"int", "float", "bool", "nonfinite"}
    THEN FloatOfNumber(s)
    ELSE LET cleaned == NumberText(PyStrOf(s))
         IN  IF cleaned = << >> THEN Value(None)
             ELSE IF FloatOfText(cleaned).ok THEN FloatOfText(cleaned)
             ELSE Value(None)

\* ------------------------------------------------------------------------
\* extract_order_data: the normalization of one item (lines 243-264)
\* ------------------------------------------------------------------------
\* U+00E9
EACUTE == "EACUTE"
KeyProduit == PyStr(<<"P", "r", "o", "d", "u", "i", "t">>)
KeyQte == PyStr(<<"Q", "t", EACUTE>>)
KeyPU == PyStr(<<"P", ".", "U", ".", " ", "H", ".", "T", ".">>)
KeyTotal == PyStr(<<"T", "o", "t", "a", "l", " ", "H", ".", "T", ".">>)
KeyVat == PyStr(<<"T", "a", "u", "x", " ", "T", "V", "A">>)

HasKey(d, k) == \E n \in 1..Len(d.v) : d.v[n][1] = k

\* dict.get(k)
DictGet(d, k) ==
    IF HasKey(d, k)
    THEN d.v[CHOOSE n \in 1..Len(d.v) : d.v[n][1] = k][2]
    ELSE None

\* d[k] = val
DictSet(d, k, val) == PyDict(DictPut(d.v, k, val))

\* line 245: int(val or 0)
IntOrZero(val) == IF Truthy(val) THEN IntOfFloat(val) ELSE Value(PyInt(0, 0))

\* the assignment of line 245, which int() may prevent by raising
StoreInt(itm, field, q) ==
    IF ~q.ok THEN Raised(q.exc) ELSE Value(DictSet(itm, field, q.v))

\* lines 244-245 once the normalizer has answered with n
StoreQuantity(itm, n) ==
    IF DictGet(itm, KeyQte) = None THEN Value(itm)
    ELSE IF ~n.ok THEN Raised(n.exc)
    ELSE StoreInt(itm, KeyQte, IntOrZero(n.v))

\* lines 244-245: int(normalize_number(itm.get("Qte")) or 0)
NormalizeQuantity(itm) ==
    StoreQuantity(itm, normalize_number(DictGet(itm, KeyQte)))

\* the price assignment with 0.0 in place of None when nothing was parsed
StorePriceOrZero(itm, field, n) ==
    IF DictGet(itm, field) = None THEN Value(itm)
    ELSE IF ~n.ok THEN Raised(n.exc)
    ELSE Value(DictSet(itm, field, IF n.v = None THEN PyFloat(0, 0) ELSE n.v))

\* lines 248-249 once the normalizer has answered with n
StorePrice(itm, field, n) ==
    IF DictGet(itm, field) = None THEN Value(itm)
    ELSE IF ~n.ok THEN Raised(n.exc)
    ELSE Value(DictSet(itm, field, n.v))

\* lines 248-249, for one field of the loop
NormalizePrice(itm, field) ==
    StorePrice(itm, field, normalize_number(DictGet(itm, field)))

\* the VAT handling with 0.0 in place of None when the parse fails
NormalizeVatZeroDefault(itm) ==
    LET t == DictGet(itm, KeyVat)
        t2 == Strip(Replace(t.v, ",", <<".">>))
        r == IF Contains(t2, "%")
             THEN FloatOfText(Strip(Replace(t2, "%", << >>)))
             ELSE FloatOfText(KeepNumeric(t2))
    IN  IF t.t # "str" THEN itm
        ELSE DictSet(itm, KeyVat, IF r.ok THEN r.v ELSE PyFloat(0, 0))

\* lines 252-264
NormalizeVat(itm) ==
    LET t == DictGet(itm, KeyVat)
        t2 == Strip(Replace(t.v, ",", <<".">>))
        r == IF Contains(t2, "%")
             THEN FloatOfText(Strip(Replace(t2, "%", << >>)))
             ELSE FloatOfText(KeepNumeric(t2))
    IN  IF t.t # "str" THEN itm
        ELSE DictSet(itm, KeyVat, IF r.ok THEN r.v ELSE None)

\* a price field is normalized only when nothing raised before it
ThenPrice(r, field) == IF ~r.ok THEN r ELSE NormalizePrice(r.v, field)

\* the VAT rate is handled only when nothing raised before it
ThenVat(r) == IF ~r.ok THEN r ELSE Value(NormalizeVat(r.v))

\* the body of the loop over the items, for one item
NormalizeItemFields(itm) ==
    ThenVat(ThenPrice(ThenPrice(NormalizeQuantity(itm), KeyPU), KeyTotal))

\* ------------------------------------------------------------------------
\* format_fr_pdf, for None and for finite numbers with at most MaxFracDigits
\* decimal digits.  A number is handled as the integer of its units of
\* 10^-MaxFracDigits.
\* ------------------------------------------------------------------------
\* most decimal digits of a formatted number
MaxFracDigits == 3

RECURSIVE Pow10(_)
Pow10(k) == IF k <= 0 THEN 1 ELSE 10 * Pow10(k - 1)

Unit == Pow10(MaxFracDigits)

\* 10^-decimals in units of 10^-MaxFracDigits
Step(decimals) == Pow10(MaxFracDigits - decimals)

\* the number n in units of 10^-MaxFracDigits
Units(n) == n.v[1] * Pow10(n.v[2] + MaxFracDigits)

\* the digits of k on w places
Pad(k, w) == Zeros(w - Len(NatText(k))) \o NatText(k)

\* f"{n:,}".replace(",", " ") for n >= 0
RECURSIVE GroupText(_)
GroupText(n) ==
    IF n < 1000 THEN NatText(n)
    ELSE GroupText(n \div 1000) \o <<" ">> \o Pad(n % 1000, 3)

\* f"{n:,}".replace(",", " ")
GroupedInt(n) == SignText(n) \o GroupText(Abs(n))

\* int(number): towards zero
IntOf(u) == IF u < 0 THEN -((-u) \div Unit) ELSE u \div Unit

\* divmod(number, 1)[0]: the floor
FloorOf(u) == u \div Unit

\* f"{decimal:.{decimals}f}" for 0 <= decimal < 1 given in units: the
\* nearest multiple of 10^-decimals
FixedText(dec, decimals) ==
    LET r == (dec + Step(decimals) \div 2) \div Step(decimals)
    IN  NatText(r \div Pow10(decimals)) \o <<".">>
            \o Pad(r % Pow10(decimals), decimals)

\* lines 787-796
FormatDecimals(u, decimals) ==
    LET integer == FloorOf(u)
        decimal == u - integer * Unit
        fixed == FixedText(decimal, decimals)
    IN  GroupedInt(integer) \o <<",">>
            \o Slice(fixed, LastIndexOf(fixed, ".") + 1, Len(fixed))

\* lines 773-796
format_fr_pdf(number, decimals) ==
    IF number = None THEN << >>
    ELSE IF decimals = 0 THEN GroupedInt(IntOf(Units(number)))
    ELSE FormatDecimals(Units(number), decimals)

\* n rounded to the nearest multiple of 10^-decimals, in units of
\* 10^-decimals
RoundedTo(u, decimals) ==
    (u + Step(decimals) \div 2) \div Step(decimals)

\* a number with two nearest multiples of 10^-decimals
IsTie(u, decimals) ==
    Step(decimals) > 1 /\ u % Step(decimals) = Step(decimals) \div 2

RECURSIVE KeepDigits(_)
KeepDigits(s) ==
    IF s = << >> THEN << >>
    ELSE (IF Head(s) \in Digits THEN <<Head(s)>> ELSE << >>)
         \o KeepDigits(Tail(s))

Unsigned(s) == IF s # << >> /\ Head(s) = "-" THEN Tail(s) ELSE s

\* digits grouped in threes with spaces, a comma, then d digits
FrenchShape(s, d) ==
    LET body == Unsigned(s)
        c == Len(body) - d
    IN  /\ c >= 2
        /\ body[c] = ","
        /\ \A i \in (c + 1)..Len(body) : body[i] \in Digits
        /\ \A i \in 1..(c - 1) :
              IF (c - i) % 4 = 0 THEN body[i] = " " ELSE body[i] \in Digits
        /\ body[1] \in Digits
        /\ body[1] = "0" => c = 2

\* the number a French rendering with d decimals denotes, in units of
\* 10^-d
FrenchValue(s, d) ==
    LET ds == KeepDigits(s)
        n == DigitsValue(ds, 1, Len(ds))
    IN  IF s # << >> /\ Head(s) = "-" THEN -n ELSE n

\* ------------------------------------------------------------------------
\* File handling: allowed_file and werkzeug's secure_filename, for ASCII
\* file names on a system whose path separator is "/"
\* ------------------------------------------------------------------------
\* line 39
ALLOWED_EXTENSIONS ==
    { <<"p", "n", "g">>, <<"j", "p", "g">>,
      <<"j", "p", "e", "g">>, <<"w", "e", "b", "p">>,
      <<"p", "d", "f">> }

ExtUpper == {"P", "N", "G", "J", "D", "F", "E", "W", "B"}

\* str.lower() on an extension
LowerExt(c) ==
    CASE c = "P" -> "p" [] c = "N" -> "n" [] c = "G" -> "g" [] c = "J" -> "j"
      [] c = "D" -> "d" [] c = "F" -> "f" [] c = "E" -> "e" [] c = "W" -> "w"
      [] c = "B" -> "b" [] OTHER -> c

\* line 136
allowed_file(filename) ==
    /\ Contains(filename, ".")
    /\ LET ext == Slice(filename, LastIndexOf(filename, ".") + 1,
                        Len(filename))
       IN  [n \in 1..Len(ext) |-> LowerExt(ext[n])] \in ALLOWED_EXTENSIONS

\* index of the first white space at or after i (Len(s) + 1 if none)
RECURSIVE WordEnd(_, _)
WordEnd(s, i) ==
    IF i <= Len(s) /\ s[i] \notin PyWs THEN WordEnd(s, i + 1) ELSE i

\* "_".join(s[i..].split())
RECURSIVE JoinWordsFrom(_, _)
JoinWordsFrom(s, i) ==
    LET a == SkipSet(s, i, PyWs)
        b == WordEnd(s, a)
        rest == JoinWordsFrom(s, b)
    IN  IF a > Len(s) THEN << >>
        ELSE Slice(s, a, b - 1) \o
             (IF rest = << >> THEN << >> ELSE <<"_">> \o rest)

\* the characters secure_filename keeps: [A-Za-z0-9_.-]
SafeNameChars ==
    Digits \cup LowerLetters \cup UpperLetters \cup ExtUpper
        \cup {"_", ".", "-", "c", "d", "g", "h", "k", "m", "p", "q", "v",
              "w", "z"}

RECURSIVE KeepSafe(_)
KeepSafe(s) ==
    IF s = << >> THEN << >>
    ELSE (IF Head(s) \in SafeNameChars THEN <<Head(s)>> ELSE << >>)
         \o KeepSafe(Tail(s))

\* line 711: path separators become spaces, the words are joined with "_",
\* the unsafe characters are dropped, dots and underscores are stripped
\* from both ends
secure_filename(filename) ==
    LET joined == JoinWordsFrom(Replace(filename, "/", <<" ">>), 1)
        kept == KeepSafe(joined)
    IN  Slice(kept, SkipSet(kept, 1, {".", "_"}),
              SkipSetBack(kept, Len(kept), {".", "_"}))

\* ------------------------------------------------------------------------
\* parse_llm_response: from the response envelope to the raw text
\* (lines 219-231)
\* ------------------------------------------------------------------------
KeyItems == PyStr(<<"i", "t", "e", "m", "s">>)
KeyChoices == PyStr(<<"c", "h", "o", "i", "c", "e", "s">>)
KeyMessage == PyStr(<<"m", "e", "s", "s", "a", "g", "e">>)
KeyDelta == PyStr(<<"d", "e", "l", "t", "a">>)
KeyContent == PyStr(<<"c", "o", "n", "t", "e", "n", "t">>)

\* bool(x)
PyTruthy(x) ==
    CASE x.t = "None" -> FALSE
      [] x.t = "bool" -> x.v[1]
      [] x.t \in {"int", "float"} -> x.v # <<0, 0>>
      [] x.t = "nonfinite" -> TRUE
      [] OTHER -> x.v # << >>

\* d.get(k): the default is not used
DictGetNoDefault(d, k, default) == DictGet(d, k)

\* d.get(k, default)
DictGetOr(d, k, default) == IF HasKey(d, k) THEN DictGet(d, k) ELSE default

\* line 219: resp_json.get("choices", [])
ChoicesOf(resp) ==
    IF resp.t # "dict" THEN Raised("AttributeError")
    ELSE Value(DictGetOr(resp, KeyChoices, PyList(<< >>)))

\* choices[0] of line 223, for choices that are not empty
FirstChoice(choices) ==
    CASE choices.t \in {"list", "tuple"} -> Value(choices.v[1])
      [] choices.t = "str" -> Value(PyStr(<<choices.v[1]>>))
      [] choices.t = "dict" -> Raised("KeyError")
      [] OTHER -> Raised("TypeError")

\* line 223: choices[0].get("message") or choices[0].get("delta") or {}
MessageOf(first) ==
    IF first.t # "dict" THEN Raised("AttributeError")
    ELSE IF PyTruthy(DictGet(first, KeyMessage))
    THEN Value(DictGet(first, KeyMessage))
    ELSE IF PyTruthy(DictGet(first, KeyDelta))
    THEN Value(DictGet(first, KeyDelta))
    ELSE Value(PyDict(<< >>))

\* line 224: message.get("content")
ContentOf(message) ==
    IF message.t # "dict" THEN Raised("AttributeError")
    ELSE Value(DictGet(message, KeyContent))

\* lines 226-231: the text handed to the tolerant parser
RawTextOf(first, content) ==
    IF content.t = "dict" THEN json_dumps(content)
    ELSE IF content.t = "str" THEN content.v
    ELSE json_dumps(first)

\* lines 223-231 for a first choice
RawOfMessage(first, message) ==
    IF ~message.ok THEN message
    ELSE IF ~ContentOf(message.v).ok THEN ContentOf(message.v)
    ELSE Value(PyStr(RawTextOf(first, ContentOf(message.v).v)))

RawOfChoice(first) ==
    IF ~first.ok THEN first ELSE RawOfMessage(first.v, MessageOf(first.v))

\* line 242: what the loop over extracted.get("items", []) goes through
IterItems(val) ==
    CASE val.t \in {"list", "tuple", "set"} -> Value(val.v)
      [] val.t \in {"str", "bytes"} ->
            Value([n \in 1..Len(val.v) |-> PyStr(<<val.v[n]>>)])
      [] val.t = "dict" -> Value([n \in 1..Len(val.v) |-> val.v[n][1]])
      [] OTHER -> Raised("TypeError")

\* the strategy list with the literal evaluation put before the trailing
\* comma removal
StrategySwapped(k, cand) ==
    CASE k = 1 -> try_json_loads(cand)
      [] k = 2 -> try_ast_literal_eval(cand)
      [] k = 3 -> try_json_loads(remove_trailing_commas(cand))
      [] k = 4 -> try_json_loads(
                      remove_trailing_commas(SingleToDoubleQuotes(cand)))

\* the four lambdas of the strategy list, in list order
Strategy(k, cand) ==
    CASE k = 1 -> try_json_loads(cand)
      [] k = 2 -> try_json_loads(remove_trailing_commas(cand))
      [] k = 3 -> try_ast_literal_eval(cand)
      [] k = 4 -> try_json_loads(
                      remove_trailing_commas(SingleToDoubleQuotes(cand)))

NumStrategies == 4

\* ------------------------------------------------------------------------
\* Input texts
\* ------------------------------------------------------------------------
\* longest text of the exhaustive family
MaxLen == 3
\* longest prose before and after an embedded JSON text
MaxProse == 1

EnumChars == {"{", "}", "[", "]", ",", ":", DQ, SQ, "1", " "}
ProseChars == {"x", " ", DQ, ",", ":", NL, "1"}

TextsUpTo(chars, n) == UNION {[1..k -> chars] : k \in 0..n}

ShortTexts == TextsUpTo(EnumChars, MaxLen)

\* valid JSON objects and arrays
JsonContainers ==
    { <<"{", DQ, "a", DQ, ":", "1", "}">>,
      <<"[", "1", ",", " ", "2", "]">>,
      <<"{", "}">>,
      <<"[", "]">>,
      <<"{", DQ, "a", DQ, ":", DQ, ",", "}", DQ, "}">>,
      <<"{", DQ, "a", DQ, ":", " ", "[", "t", "r", "u", "e", ",",
        "n", "u", "l", "l", "]", "}">>,
      <<"{", DQ, "a", DQ, ":", "{", DQ, "b", DQ, ":", "1", ".", "5", "}",
        ",", DQ, "x", DQ, ":", DQ, "n", "u", "l", "l", ",", " ", "]", DQ,
        "}">>,
      <<"[", DQ, BQ, BQ, BQ, DQ, "]">> }

JsonScalars ==
    { <<"1">>, <<DQ, "x", DQ>>, <<"n", "u", "l", "l">>,
      <<"-", "2", ".", "5", "0">> }

ValidJson == JsonContainers \cup JsonScalars

\* a fenced block around J
FenceTags == { << >>, <<"j", "s", "o", "n">>, <<"J", "S", "O", "N">>,
               <<"J", "s", "o", "n">> }
FenceGaps == { << >>, <<NL>>, <<" ">> }

Fenced(tag, gap1, j, gap2) == Fence \o tag \o gap1 \o j \o gap2 \o Fence

\* J with one comma (and white space) put before the closing brace at p
QuotesBefore(j, p) == Cardinality({k \in 1..(p - 1) : j[k] = DQ})

TrailingPositions(j) ==
    {p \in 2..Len(j) :
        /\ j[p] = "}"
        /\ QuotesBefore(j, p) % 2 = 0
        /\ j[SkipSetBack(j, p - 1, JsonWs)] \notin {"{", ","}}

WithTrailingComma(j, p, gap) ==
    Slice(j, 1, p - 1) \o <<",">> \o gap \o Slice(j, p, Len(j))

JsonObjects == {j \in JsonContainers : j[1] = "{"}

\* prose around J: no brace, no bracket
ProseTexts ==
    TextsUpTo(ProseChars, MaxProse)
        \cup { Fence \o JsonTag \o <<NL>>, <<NL>> \o Fence,
               <<"x", ":", " ", DQ>>, <<DQ, " ", "x">> }

\* texts that reach the later strategies
SpecialTexts ==
    { <<"[", "1", ",", "]">>,
      <<"[", "n", "u", "l", "l", "]">>,
      <<"{", SQ, "a", SQ, ":", " ", "N", "U", "L", "L", ",", "}">>,
      <<"[", SQ, "a", SQ, ",", "N", "a", "N", "]">>,
      <<"{", SQ, "a", SQ, ":", "I", "n", "f", "i", "n", "i", "t", "y", ",",
        "}">>,
      <<"x", " ", "[", "1", "]", ",", "[", "2", "]", " ", "y">>,
      <<"N", "a", "N">>,
      <<"t", "r", "u", "e">>,
      <<"x", "y">>,
      <<"[", "x", "]">>,
      <<"{", DQ, "a", DQ, ":", "1", ",", ",", "}">>,
      <<"{", SQ, "a", SQ, ":", SQ, "n", "u", "l", "l", SQ, "}">>,
      <<"[", SQ, "x", " ", "t", "r", "u", "e", SQ, ",", "f", "a", "l", "s",
        "e", "]">> }

\* ------------------------------------------------------------------------
\* Input numbers
\* ------------------------------------------------------------------------
\* longest text of the exhaustive family of normalize_number
MaxNumLen == 3
\* most groups of three digits in a formatted number
MaxGroups == 1

NumChars == {"1", "0", ",", ".", "-", " ", "x"}
NumTexts == TextsUpTo(NumChars, MaxNumLen)

Leads == {<<"1">>, <<"5">>, <<"2", "0">>}
GroupDigits == {<<"0", "0", "0">>, <<"2", "3", "4">>}
\* the decimal digits; << >> is a number without decimal part
Fracs == {<< >>, <<"0">>, <<"5">>, <<"5", "6">>, <<"0", "0">>}
Conventions == {"fr_space", "fr_nbsp", "fr_dot", "en"}

ThousandsSep(conv) ==
    CASE conv = "fr_space" -> " " [] conv = "fr_nbsp" -> NBSP
      [] conv = "fr_dot" -> "." [] conv = "en" -> ","

DecimalSep(conv) == IF conv = "en" THEN "." ELSE ","

RECURSIVE Flatten(_)
Flatten(seqs) ==
    IF seqs = << >> THEN << >> ELSE Head(seqs) \o Flatten(Tail(seqs))

\* the number written in a convention
FormatNumber(f) ==
    (IF f.neg THEN <<"-">> ELSE << >>)
        \o f.lead
        \o Flatten([k \in 1..Len(f.groups) |->
                       <<ThousandsSep(f.conv)>> \o f.groups[k]])
        \o (IF f.frac = << >> THEN << >>
            ELSE <<DecimalSep(f.conv)>> \o f.frac)

\* the number it denotes
Denoted(f) ==
    LET ds == f.lead \o Flatten(f.groups) \o f.frac
    IN  PyFloat((IF f.neg THEN -1 ELSE 1) * DigitsValue(ds, 1, Len(ds)),
                -Len(f.frac))

Forms ==
    [neg : BOOLEAN, lead : Leads,
     groups : UNION {[1..k -> GroupDigits] : k \in 0..MaxGroups},
     frac : Fracs, conv : Conventions]

NoForm == [neg |-> FALSE, lead |-> << >>, groups |-> << >>, frac |-> << >>,
           conv |-> "none"]

NativeNumbers ==
    { PyInt(0, 0), PyInt(5, 0), PyInt(-3, 0), PyInt(1, 308), PyInt(1, 309),
      PyInt(2, 308), PyFloat(15, -1), PyFloat(-25, -1), PyFloat(0, 0),
      PyBool(TRUE), PyBool(FALSE),
      PyNonFinite("inf"), PyNonFinite("-inf"), PyNonFinite("nan") }

\* ------------------------------------------------------------------------
\* Input items
\* ------------------------------------------------------------------------
\* longest text of the exhaustive quantities
MaxQtyLen == 2
\* longest text of the exhaustive VAT rates
MaxVatLen == 2
\* most items of a document
MaxItems == 2

QtyChars == {"1", "0", ",", "-", "x"}
VatChars == {"2", ",", "%", "x"}

Missing == [t |-> "missing", v |-> << >>]

QtyValues ==
    {PyStr(q) : q \in TextsUpTo(QtyChars, MaxQtyLen)}
        \cup { PyStr(<<"5", " ", "0", "0", "0", ",", "0">>),
               PyStr(<<"-", "1", ",", "5">>), PyStr(<<"1", ".", "9">>),
               PyStr(<<"2">>), PyStr(<<"0", ",", "5">>),
               PyStr(<<"n", "a", "n">>),
               None, PyInt(3, 0), PyInt(0, 0), PyFloat(25, -1),
               PyFloat(-25, -1), PyBool(TRUE), PyNonFinite("inf"),
               PyNonFinite("nan"), PyInt(1, 309), Missing,
               PyList(<<PyInt(1, 0), PyInt(2, 0)>>) }

VatValues ==
    {PyStr(q) : q \in TextsUpTo(VatChars, MaxVatLen)}
        \cup { PyStr(<<"2", "0", ",", "0", "0", "%">>),
               PyStr(<<" ", "5", ",", "5", " ", "%">>),
               PyStr(<<"2", "0", ".", "0">>),
               PyStr(<<"1", ".", "2", "3", "4", ",", "5", "6", "%">>),
               PyStr(<<"n", "a", "n", "%">>), PyStr(<<"0", "%">>),
               PyStr(<<"-", "2", ",", "5", "%">>),
               None, PyFloat(20, 0), PyInt(0, 0), PyBool(TRUE), Missing }

PUValues == { PyStr(<<"5", ",", "5", "0">>), PyStr(<<"x">>), Missing, None,
              PyFloat(0, 0) }
TotalValues == { PyStr(<<"1", "1", ",", "0", "0">>), PyFloat(11, 0),
                 PyStr(<<"1", ".", "2", "3", "4", ",", "5", "6">>) }

\* the quantities and rates that accompany the exhaustive values of the
\* other field: one that parses, one that does not, one that raises
FewQtyValues == { PyStr(<<"2">>), PyStr(<<"x">>), PyNonFinite("inf") }
FewVatValues == { PyStr(<<"2", "0", ",", "0", "0", "%">>), PyStr(<<"x", "%">>),
                 PyFloat(20, 0) }
\* the first item of a document: every quantity with a few rates, every rate
\* with a few quantities
FirstFields ==
    (QtyValues \X FewVatValues) \cup (FewQtyValues \X VatValues)

\* the dict of an item; a Missing field has no key
MakeItem(name, q, pu, tot, vat) ==
    LET all == << <<KeyProduit, PyStr(name)>>, <<KeyQte, q>>, <<KeyPU, pu>>,
                  <<KeyTotal, tot>>, <<KeyVat, vat>> >>
    IN  PyDict(SelectSeq(all, LAMBDA kv : kv[2] # Missing))

\* the items that follow the first one
MoreItems ==
    { MakeItem(<<"b">>, PyStr(<<"x">>), Missing, PyFloat(11, 0),
               PyStr(<<"5", "%">>)),
      MakeItem(<<"c">>, PyInt(3, 0), PyStr(<<"1", ",", "5">>), Missing,
               PyFloat(20, 0)) }

\* ------------------------------------------------------------------------
\* Inputs of extract_order_data: what the model answers and how the
\* provider wraps it
\* ------------------------------------------------------------------------
\* an order without items
DocEmptyItems ==
    <<"{", DQ, "i", "t", "e", "m", "s", DQ, ":", "[", "]", "}">>

\* an object without the items key
DocNoItemsKey ==
    <<"{", DQ, "c", "u", "r", "r", "e", "n", "c", "y", DQ, ":", "n", "u",
      "l", "l", "}">>

\* one item written the French way
DocOneItem ==
    <<"{", DQ, "i", "t", "e", "m", "s", DQ, ":", "[", "{", DQ, "P", "r",
      "o", "d", "u", "i", "t", DQ, ":", DQ, "a", DQ, ",", DQ, "Q", "t",
      EACUTE, DQ, ":", DQ, "5", " ", "0", "0", "0", ",", "0", DQ, ",", DQ,
      "P", ".", "U", ".", " ", "H", ".", "T", ".", DQ, ":", DQ, "5", ",",
      "5", "0", DQ, ",", DQ, "T", "a", "u", "x", " ", "T", "V", "A", DQ,
      ":", DQ, "2", "0", ",", "0", "0", "%", DQ, "}", "]", "}">>

\* two items, the first with an unparsable quantity
DocTwoItems ==
    <<"{", DQ, "c", "u", "r", "r", "e", "n", "c", "y", DQ, ":", DQ, "E",
      "U", "R", DQ, ",", DQ, "i", "t", "e", "m", "s", DQ, ":", "[", "{", DQ,
      "P", "r", "o", "d", "u", "i", "t", DQ, ":", DQ, "b", DQ, ",", DQ, "Q",
      "t", EACUTE, DQ, ":", DQ, "x", DQ, ",", DQ, "T", "o", "t", "a", "l",
      " ", "H", ".", "T", ".", DQ, ":", "1", "1", ".", "0", "}", ",", "{",
      DQ, "P", "r", "o", "d", "u", "i", "t", DQ, ":", DQ, "c", DQ, ",", DQ,
      "Q", "t", EACUTE, DQ, ":", "3", ",", DQ, "P", ".", "U", ".", " ", "H",
      ".", "T", ".", DQ, ":", DQ, "x", DQ, "}", "]", "}">>

\* a quantity that is not a number
DocNanQuantity ==
    <<"{", DQ, "i", "t", "e", "m", "s", DQ, ":", "[", "{", DQ, "P", "r",
      "o", "d", "u", "i", "t", DQ, ":", DQ, "a", DQ, ",", DQ, "Q", "t",
      EACUTE, DQ, ":", "N", "a", "N", "}", ",", "{", DQ, "P", "r", "o", "d",
      "u", "i", "t", DQ, ":", DQ, "b", DQ, ",", DQ, "Q", "t", EACUTE, DQ,
      ":", "2", "}", "]", "}">>

\* nested values in the numeric fields
DocNestedQuantity ==
    <<"{", DQ, "i", "t", "e", "m", "s", DQ, ":", "[", "{", DQ, "Q", "t",
      EACUTE, DQ, ":", "[", "1", ",", "2", "]", ",", DQ, "P", ".", "U", ".",
      " ", "H", ".", "T", ".", DQ, ":", "{", DQ, "a", DQ, ":", DQ, "5", DQ,
      "}", ",", DQ, "T", "a", "u", "x", " ", "T", "V", "A", DQ, ":", "[",
      "2", "0", "]", "}", "]", "}">>

\* an order inside prose
DocInProse ==
    <<"V", "o", "i", "c", "i", ":", " ", "{", DQ, "i", "t", "e", "m", "s",
      DQ, ":", "[", "{", DQ, "Q", "t", EACUTE, DQ, ":", "2", "}", "]", "}",
      " ", "f", "i", "n">>

\* an order in single quotes
DocSingleQuoted ==
    <<"{", SQ, "i", "t", "e", "m", "s", SQ, ":", "[", "{", SQ, "P", "r",
      "o", "d", "u", "i", "t", SQ, ":", SQ, "n", "u", "l", "l", SQ, ",", SQ,
      "Q", "t", EACUTE, SQ, ":", "n", "u", "l", "l", "}", "]", "}">>

\* no JSON at all
DocNoJson ==
    <<"p", "a", "s", " ", "d", "e", " ", "t", "a", "b", "l", "e", "a", "u">>

\* a candidate no strategy parses
DocBroken ==
    <<"{", DQ, "i", "t", "e", "m", "s", DQ, ":", "}">>

\* an array instead of an object
DocArray ==
    <<"[", "{", DQ, "Q", "t", EACUTE, DQ, ":", "2", "}", "]">>

\* items is null
DocNullItems ==
    <<"{", DQ, "i", "t", "e", "m", "s", DQ, ":", "n", "u", "l", "l", "}">>

\* an item that is not an object
DocScalarItem ==
    <<"{", DQ, "i", "t", "e", "m", "s", DQ, ":", "[", "1", "]", "}">>

\* items is an empty text
DocTextItems ==
    <<"{", DQ, "i", "t", "e", "m", "s", DQ, ":", DQ, DQ, "}">>

ContentTexts ==
    { DocEmptyItems, DocNoItemsKey, DocOneItem, DocTwoItems,
      DocNanQuantity, DocNestedQuantity, DocInProse, DocSingleQuoted,
      DocNoJson, DocBroken, DocArray, DocNullItems,
      DocScalarItem, DocTextItems }

\* a response envelope whose first choice is the given dict
EnvelopeOf(first) == PyDict(<< <<KeyChoices, PyList(<<first>>)>> >>)

WithContent(key, content) ==
    PyDict(<< <<key, PyDict(<< <<KeyContent, content>> >>)>> >>)

KeyRole == PyStr(<<"r", "o", "l", "e">>)
KeyIndex == PyStr(<<"i", "n", "d", "e", "x">>)

\* first choices that carry a content
ChoicesWithContent ==
    {WithContent(KeyMessage, PyStr(t)) : t \in ContentTexts}
        \cup { WithContent(KeyDelta, PyStr(DocOneItem)),
               PyDict(<< <<KeyMessage, None>>,
                         <<KeyDelta, PyDict(<< <<KeyContent,
                                                PyStr(DocEmptyItems)>> >>)>> >>),
               WithContent(KeyMessage, PyDict(<< <<KeyItems, PyList(<< >>)>> >>)),
               WithContent(KeyMessage,
                   PyDict(<< <<KeyItems, PyList(<<
                       PyDict(<< <<KeyProduit, PyStr(<<"a">>)>>,
                                 <<KeyPU, PyStr(<<"1", ",", "5">>)>> >>) >>)>> >>)) }

\* first choices without content: no message, an empty message, a message
\* without content or with a null content
ChoicesWithoutContent ==
    { PyDict(<< >>),
      PyDict(<< <<KeyIndex, PyInt(0, 0)>> >>),
      PyDict(<< <<KeyMessage, PyDict(<< >>)>> >>),
      PyDict(<< <<KeyMessage, None>> >>),
      PyDict(<< <<KeyMessage,
                  PyDict(<< <<KeyRole, PyStr(<<"a", "i">>)>> >>)>> >>),
      WithContent(KeyMessage, None),
      WithContent(KeyDelta, None),
      PyDict(<< <<KeyMessage, PyDict(<< <<KeyContent, None>> >>)>>,
                <<KeyItems, PyList(<<PyDict(<< <<KeyQte, PyStr(<<"2">>)>> >>)>>)>> >>) }

\* envelopes with zero choices
EnvelopesWithoutChoices ==
    { PyDict(<< >>),
      PyDict(<< <<KeyChoices, PyList(<< >>)>> >>),
      PyDict(<< <<KeyChoices, None>> >>),
      PyDict(<< <<KeyRole, PyStr(<<"a", "i">>)>> >>) }

\* envelopes the code does not expect: a JSON body that is not an object,
\* choices or a message that are not what they should be
OddEnvelopes ==
    { PyList(<< >>),
      PyDict(<< <<KeyChoices, PyInt(1, 0)>> >>),
      EnvelopeOf(PyStr(<<"a">>)),
      EnvelopeOf(PyDict(<< <<KeyMessage, PyStr(<<"a">>)>> >>)),
      EnvelopeOf(WithContent(KeyMessage, PyInt(5, 0))) }

Envelopes ==
    {EnvelopeOf(c) : c \in ChoicesWithContent \cup ChoicesWithoutContent}
        \cup EnvelopesWithoutChoices \cup OddEnvelopes

\* how the request of line 213 ends: a 2xx answer with a JSON body, a
\* network error, a timeout, an error status, a body that is not JSON
Transports == {"ok", "ConnectionError", "Timeout", "HTTPError",
               "JSONDecodeError"}

\* ------------------------------------------------------------------------
\* Inputs of upload_file
\* ------------------------------------------------------------------------
\* most requests handled at once
MaxRequests == 2

Requests == 1..MaxRequests

\* the file names the clients send; "" stands for no file selected
RawNames ==
    { <<"a", ".", "p", "n", "g">>,
      <<"/", "a", ".", "p", "n", "g">>,
      <<"b", ".", "P", "N", "G">>,
      <<"a", ".", "t", "x", "t">>,
      << >> }

\* the names a file can have in the upload folder
Paths == {secure_filename(n) : n \in RawNames}

\* ------------------------------------------------------------------------
\* Inputs of format_fr_pdf
\* ------------------------------------------------------------------------
FormatMantissas ==
    { 0, 5, 15, 96, 4, 996, 1234, 5000, 50096, 99999, 123456,
      -5, -15, -96, -4, -996, -1234, -5000, -99999 }

FormatNumbers ==
    {PyFloat(m, -e) : m \in FormatMantissas, e \in 0..MaxFracDigits}
        \cup {PyInt(m, 0) : m \in FormatMantissas}
        \cup {PyInt(5, 3), None}

FormatDecimalsValues == {0, 1, 2}

\* ------------------------------------------------------------------------
\* State
\* ------------------------------------------------------------------------
VARIABLES
    pc,            \* the next step of the running function
    family,        \* how the input text was built
    J,             \* the JSON text the input was built around (or << >>)
    raw_text,      \* tolerant_parse_json_from_text: its argument
    cleaned_text,  \* ... the local cleaned_text
    candidate,     \* ... the local candidate
    strategy,      \* ... index of the loop over the strategy list
    tried,         \* ... the strategies tried so far: <<name, succeeded>>
    outcome,       \* "running", "returned", or the error raised
    result,        \* the value returned
    num_form,      \* normalize_number: how a formatted argument was written
    num_in,        \* ... its argument s
    num_out,       \* ... what it returned or raised
    items_in,      \* extract_order_data: the items of the parsed output
    items,         \* ... the local items, normalized in place
    idx,           \* ... index of the loop over the items
    order_out,     \* ... "running", "returned", or the error raised
    stage,         \* ... "call", "parse", "items" or "end" ("none": no call)
    file_exists,   \* ... does file_path name a file
    transport,     \* ... how the request ended ("none": not sent)
    resp_json,     \* ... the envelope the provider answers with
    requests,      \* ... the requests sent to the provider so far
    extracted,     \* ... the local extracted
    folder,        \* upload_file: the upload folder, file name -> content
    req,           \* ... the requests being handled, one record each
    fmt_number,    \* format_fr_pdf: its argument number
    fmt_decimals,  \* ... its argument decimals
    fmt_out        \* ... the text returned ("pending" before)

parseVars == <<family, J, raw_text, cleaned_text, candidate, strategy, tried,
               outcome, result>>
numVars == <<num_form, num_in, num_out>>
callVars == <<stage, file_exists, transport, resp_json, requests, extracted>>
uploadVars == <<folder, req>>
formatVars == <<fmt_number, fmt_decimals, fmt_out>>
sideVars == <<uploadVars, formatVars>>
orderVars == <<items_in, items, idx, order_out, callVars, sideVars>>

vars == <<pc, parseVars, numVars, orderVars>>

StrategyOrder == <<"direct_cleaned", "direct_raw", "locate", "as_is",
                   "no_trailing_commas", "literal_eval", "requoted">>

ParseIdle ==
    /\ family = "none"
    /\ J = << >>
    /\ raw_text = << >>
    /\ cleaned_text = << >>
    /\ candidate = << >>
    /\ strategy = 1
    /\ tried = << >>
    /\ outcome = "running"
    /\ result = None

Pending == [ok |-> FALSE, exc |-> "pending", v |-> None]

NumIdle ==
    /\ num_form = NoForm
    /\ num_in = None
    /\ num_out = Pending

CallIdle ==
    /\ stage = "none"
    /\ file_exists = TRUE
    /\ transport = "none"
    /\ resp_json = None
    /\ requests = 0
    /\ extracted = None

UploadIdle ==
    /\ folder = << >>
    /\ req = << >>

FormatIdle ==
    /\ fmt_number = None
    /\ fmt_decimals = 0
    /\ fmt_out = "pending"

OrderIdle ==
    /\ items_in = << >>
    /\ items = << >>
    /\ idx = 1
    /\ order_out = "running"
    /\ CallIdle
    /\ UploadIdle
    /\ FormatIdle

\* a call tolerant_parse_json_from_text(raw_text)
InitParse ==
    /\ pc = "clean"
    /\ cleaned_text = << >>
    /\ candidate = << >>
    /\ strategy = 1
    /\ tried = << >>
    /\ outcome = "running"
    /\ result = None
    /\ NumIdle
    /\ OrderIdle
    /\ \/ /\ family = "short"
          /\ J = << >>
          /\ raw_text \in ShortTexts \cup SpecialTexts
       \/ /\ family = "fenced"
          /\ J \in ValidJson
          /\ \E tag \in FenceTags, g1 \in FenceGaps, g2 \in FenceGaps,
                outer \in {<< >>, <<NL>>} :
                raw_text = outer \o Fenced(tag, g1, J, g2) \o outer
       \/ /\ family = "trailing"
          /\ J \in JsonObjects
          /\ \E p \in TrailingPositions(J), gap \in FenceGaps :
                raw_text = WithTrailingComma(J, p, gap)
       \/ /\ family = "prose"
          /\ J \in JsonContainers
          /\ \E pre \in ProseTexts, post \in ProseTexts :
                raw_text = pre \o J \o post

\* line 84
Clean ==
    /\ pc = "clean"
    /\ cleaned_text' = clean_markdown_json(raw_text)
    /\ pc' = "direct_cleaned"
    /\ UNCHANGED <<family, J, raw_text, candidate, strategy, tried, outcome,
                   result>>
    /\ UNCHANGED <<numVars, orderVars>>

\* lines 87-90
DirectCleaned ==
    /\ pc = "direct_cleaned"
    /\ LET r == try_json_loads(cleaned_text)
       IN  /\ tried' = Append(tried, <<"direct_cleaned", r.ok>>)
           /\ IF r.ok
              THEN outcome' = "returned" /\ result' = r.v /\ pc' = "done"
              ELSE UNCHANGED <<outcome, result>> /\ pc' = "direct_raw"
    /\ UNCHANGED <<family, J, raw_text, cleaned_text, candidate, strategy>>
    /\ UNCHANGED <<numVars, orderVars>>

\* lines 92-95
DirectRaw ==
    /\ pc = "direct_raw"
    /\ LET r == try_json_loads(raw_text)
       IN  /\ tried' = Append(tried, <<"direct_raw", r.ok>>)
           /\ IF r.ok
              THEN outcome' = "returned" /\ result' = r.v /\ pc' = "done"
              ELSE UNCHANGED <<outcome, result>> /\ pc' = "locate"
    /\ UNCHANGED <<family, J, raw_text, cleaned_text, candidate, strategy>>
    /\ UNCHANGED <<numVars, orderVars>>

\* the candidate search without its raise: the cleaned text is the candidate
ExtractCandidateNoRaise ==
    /\ pc = "locate"
    /\ tried' = Append(tried, <<"locate", HasCandidate(raw_text)>>)
    /\ candidate' = IF HasCandidate(raw_text)
                    THEN extract_first_json_candidate(raw_text)
                    ELSE cleaned_text
    /\ pc' = "strategies"
    /\ UNCHANGED <<family, J, raw_text, cleaned_text, strategy, outcome,
                   result>>
    /\ UNCHANGED <<numVars, orderVars>>

\* lines 98-101
ExtractCandidate ==
    /\ pc = "locate"
    /\ tried' = Append(tried, <<"locate", HasCandidate(raw_text)>>)
    /\ IF HasCandidate(raw_text)
       THEN /\ candidate' = extract_first_json_candidate(raw_text)
            /\ pc' = "strategies"
            /\ UNCHANGED outcome
       ELSE /\ outcome' = "NoJsonBlock"
            /\ pc' = "done"
            /\ UNCHANGED candidate
    /\ UNCHANGED <<family, J, raw_text, cleaned_text, strategy, result>>
    /\ UNCHANGED <<numVars, orderVars>>

\* lines 104-113: one turn of the loop over the strategy list
TryStrategy ==
    /\ pc = "strategies"
    /\ strategy <= NumStrategies
    /\ LET r == Strategy(strategy, candidate)
       IN  /\ tried' = Append(tried, <<StrategyOrder[strategy + 3], r.ok>>)
           /\ IF r.ok
              THEN /\ outcome' = "returned" /\ result' = r.v /\ pc' = "done"
                   /\ UNCHANGED strategy
              ELSE /\ strategy' = strategy + 1
                   /\ UNCHANGED <<outcome, result, pc>>
    /\ UNCHANGED <<family, J, raw_text, cleaned_text, candidate>>
    /\ UNCHANGED <<numVars, orderVars>>

\* line 115
RaiseParseFailure ==
    /\ pc = "strategies"
    /\ strategy > NumStrategies
    /\ outcome' = "ParseFailed"
    /\ pc' = "done"
    /\ UNCHANGED <<family, J, raw_text, cleaned_text, candidate, strategy,
                   tried, result>>
    /\ UNCHANGED <<numVars, orderVars>>

NextParse ==
    \/ Clean
    \/ DirectCleaned
    \/ DirectRaw
    \/ ExtractCandidate
    \/ TryStrategy
    \/ RaiseParseFailure

SpecParse == InitParse /\ [][NextParse]_vars

\* ------------------------------------------------------------------------
\* normalize_number applied to one argument
\* ------------------------------------------------------------------------
InitNum ==
    /\ pc = "normalize_number"
    /\ ParseIdle
    /\ OrderIdle
    /\ num_out = Pending
    /\ \/ /\ num_form \in Forms
          /\ num_in = PyStr(FormatNumber(num_form))
       \/ /\ num_form = NoForm
          /\ num_in \in {PyStr(t) : t \in NumTexts}
                           \cup NativeNumbers \cup {None}

\* lines 117-132
CallNormalizeNumber ==
    /\ pc = "normalize_number"
    /\ num_out' = normalize_number(num_in)
    /\ pc' = "done"
    /\ UNCHANGED <<num_form, num_in, parseVars, orderVars>>

NextNum == CallNormalizeNumber

SpecNum == InitNum /\ [][NextNum]_vars

\* ------------------------------------------------------------------------
\* extract_order_data from the parsed output on (lines 242-267)
\* ------------------------------------------------------------------------
InitOrder ==
    /\ pc = "items"
    /\ ParseIdle
    /\ NumIdle
    /\ idx = 1
    /\ order_out = "running"
    /\ stage = "items"
    /\ file_exists = TRUE
    /\ transport = "ok"
    /\ resp_json = None
    /\ requests = 1
    /\ UploadIdle
    /\ FormatIdle
    /\ \/ items_in = << >>
       \/ \E f \in FirstFields, pu \in PUValues, tot \in TotalValues,
             rest \in UNION {[1..k -> MoreItems] : k \in 0..(MaxItems - 1)} :
             items_in = <<MakeItem(<<"a">>, f[1], pu, tot, f[2])>> \o rest
    /\ items = items_in
    /\ extracted = PyDict(<< <<KeyItems, PyList(items_in)>> >>)

\* the loop over the items with each normalized item moved to the front
NormalizeItemToFront ==
    /\ pc = "items"
    /\ idx <= Len(items)
    /\ LET r == IF items[idx].t = "dict" THEN NormalizeItemFields(items[idx])
                ELSE Raised("AttributeError")
       IN  IF r.ok
           THEN /\ items' = <<r.v>> \o SubSeq(items, 1, idx - 1)
                                   \o SubSeq(items, idx + 1, Len(items))
                /\ idx' = idx + 1
                /\ UNCHANGED <<pc, order_out, stage>>
           ELSE /\ order_out' = r.exc
                /\ pc' = "done"
                /\ stage' = "end"
                /\ UNCHANGED <<items, idx>>
    /\ UNCHANGED <<items_in, parseVars, numVars>>
    /\ UNCHANGED <<file_exists, transport, resp_json, requests, extracted>>
    /\ UNCHANGED sideVars

\* lines 243-264: one turn of the loop over the items
NormalizeItem ==
    /\ pc = "items"
    /\ idx <= Len(items)
    /\ LET r == IF items[idx].t = "dict" THEN NormalizeItemFields(items[idx])
                ELSE Raised("AttributeError")
       IN  IF r.ok
           THEN /\ items' = [items EXCEPT ![idx] = r.v]
                /\ idx' = idx + 1
                /\ UNCHANGED <<pc, order_out, stage>>
           ELSE /\ order_out' = r.exc
                /\ pc' = "done"
                /\ stage' = "end"
                /\ UNCHANGED <<items, idx>>
    /\ UNCHANGED <<items_in, parseVars, numVars>>
    /\ UNCHANGED <<file_exists, transport, resp_json, requests, extracted>>
    /\ UNCHANGED sideVars

\* line 266: the value stored under "items", the list normalized in place
ItemsValue ==
    IF DictGetOr(extracted, KeyItems, PyList(<< >>)).t = "list"
    THEN PyList(items)
    ELSE DictGet(extracted, KeyItems)

\* lines 266-267
ReturnExtracted ==
    /\ pc = "items"
    /\ idx > Len(items)
    /\ extracted' = DictSet(extracted, KeyItems, ItemsValue)
    /\ order_out' = "returned"
    /\ pc' = "done"
    /\ stage' = "end"
    /\ UNCHANGED <<items_in, items, idx, parseVars, numVars>>
    /\ UNCHANGED <<file_exists, transport, resp_json, requests>>
    /\ UNCHANGED sideVars

NextOrder == NormalizeItem \/ ReturnExtracted

SpecOrder == InitOrder /\ [][NextOrder]_vars

\* ------------------------------------------------------------------------
\* extract_order_data(file_path), from the file to the result
\* ------------------------------------------------------------------------
InitExtract ==
    /\ pc = "encode"
    /\ family = "none"
    /\ J = << >>
    /\ raw_text = << >>
    /\ cleaned_text = << >>
    /\ candidate = << >>
    /\ strategy = 1
    /\ tried = << >>
    /\ outcome = "running"
    /\ result = None
    /\ NumIdle
    /\ items_in = << >>
    /\ items = << >>
    /\ idx = 1
    /\ order_out = "running"
    /\ stage = "call"
    /\ file_exists \in BOOLEAN
    /\ transport = "none"
    /\ resp_json \in Envelopes
    /\ requests = 0
    /\ extracted = None
    /\ UploadIdle
    /\ FormatIdle

\* the call fails with exc
Fail(exc) ==
    /\ order_out' = exc
    /\ pc' = "done"
    /\ stage' = "end"

\* line 237, lines 140-158
EncodeFile ==
    /\ pc = "encode"
    /\ IF file_exists
       THEN pc' = "post" /\ UNCHANGED <<order_out, stage>>
       ELSE Fail("FileNotFoundError")
    /\ UNCHANGED <<items_in, items, idx, parseVars, numVars>>
    /\ UNCHANGED <<file_exists, transport, resp_json, requests, extracted>>
    /\ UNCHANGED sideVars

\* the request sent a second time when it fails
PostRequestRetrying ==
    /\ pc = "post"
    /\ \E t \in Transports :
          /\ transport' = t
          /\ requests' = requests + (IF t = "ok" THEN 1 ELSE 2)
          /\ IF t = "ok"
             THEN pc' = "choices" /\ UNCHANGED <<order_out, stage>>
             ELSE Fail(t)
    /\ UNCHANGED <<items_in, items, idx, parseVars, numVars>>
    /\ UNCHANGED <<file_exists, resp_json, extracted>>
    /\ UNCHANGED sideVars

\* lines 213-215: the request is sent and its answer read
PostRequest ==
    /\ pc = "post"
    /\ requests' = requests + 1
    /\ \E t \in Transports :
          /\ transport' = t
          /\ IF t = "ok"
             THEN pc' = "choices" /\ UNCHANGED <<order_out, stage>>
             ELSE Fail(t)
    /\ UNCHANGED <<items_in, items, idx, parseVars, numVars>>
    /\ UNCHANGED <<file_exists, resp_json, extracted>>
    /\ UNCHANGED sideVars

\* line 219 without the check of lines 220-221
GetChoicesUnchecked ==
    /\ pc = "choices"
    /\ LET c == ChoicesOf(resp_json)
       IN  IF ~c.ok THEN Fail(c.exc)
           ELSE IF c.v.t = "list" /\ c.v.v = << >> THEN Fail("IndexError")
           ELSE IF ~PyTruthy(c.v) THEN Fail("TypeError")
           ELSE pc' = "content" /\ UNCHANGED <<order_out, stage>>
    /\ UNCHANGED <<items_in, items, idx, parseVars, numVars>>
    /\ UNCHANGED <<file_exists, transport, resp_json, requests, extracted>>
    /\ UNCHANGED sideVars

\* lines 219-221
GetChoices ==
    /\ pc = "choices"
    /\ LET c == ChoicesOf(resp_json)
       IN  IF ~c.ok THEN Fail(c.exc)
           ELSE IF ~PyTruthy(c.v) THEN Fail("NoChoices")
           ELSE pc' = "content" /\ UNCHANGED <<order_out, stage>>
    /\ UNCHANGED <<items_in, items, idx, parseVars, numVars>>
    /\ UNCHANGED <<file_exists, transport, resp_json, requests, extracted>>
    /\ UNCHANGED sideVars

\* lines 223-233: the raw text is handed to the tolerant parser
GetContent ==
    /\ pc = "content"
    /\ LET raw == RawOfChoice(FirstChoice(ChoicesOf(resp_json).v))
       IN  IF raw.ok
           THEN /\ raw_text' = raw.v.v
                /\ pc' = "clean"
                /\ stage' = "parse"
                /\ UNCHANGED order_out
           ELSE /\ Fail(raw.exc)
                /\ UNCHANGED raw_text
    /\ UNCHANGED <<family, J, cleaned_text, candidate, strategy, tried,
                   outcome, result>>
    /\ UNCHANGED <<items_in, items, idx, numVars>>
    /\ UNCHANGED <<file_exists, transport, resp_json, requests, extracted>>
    /\ UNCHANGED sideVars

\* lines 239 and 242: the parser has ended; extracted.get("items", [])
GetItems ==
    /\ pc = "done"
    /\ stage = "parse"
    /\ IF outcome # "returned"
       THEN Fail(outcome) /\ UNCHANGED <<extracted, items_in, items>>
       ELSE /\ extracted' = result
            /\ IF result.t # "dict"
               THEN Fail("AttributeError") /\ UNCHANGED <<items_in, items>>
               ELSE LET it == IterItems(DictGetOr(result, KeyItems,
                                                  PyList(<< >>)))
                    IN  IF it.ok
                        THEN /\ items_in' = it.v
                             /\ items' = it.v
                             /\ pc' = "items"
                             /\ stage' = "items"
                             /\ UNCHANGED order_out
                        ELSE Fail(it.exc) /\ UNCHANGED <<items_in, items>>
    /\ UNCHANGED <<idx, parseVars, numVars>>
    /\ UNCHANGED <<file_exists, transport, resp_json, requests>>
    /\ UNCHANGED sideVars

NextExtract ==
    \/ EncodeFile
    \/ PostRequest
    \/ GetChoices
    \/ GetContent
    \/ Clean
    \/ DirectCleaned
    \/ DirectRaw
    \/ ExtractCandidate
    \/ TryStrategy
    \/ RaiseParseFailure
    \/ GetItems
    \/ NormalizeItem
    \/ ReturnExtracted

SpecExtract == InitExtract /\ [][NextExtract]_vars

\* ------------------------------------------------------------------------
\* upload_file: MaxRequests requests handled by concurrent threads.
\* Request r uploads document r; the folder maps a file name to the
\* document stored under it (0: no such file); the extraction of a document
\* gives the result for that document or fails.
\* ------------------------------------------------------------------------
NewRequest(name) ==
    [pc |-> "check", name |-> name, path |-> << >>, read |-> 0,
     status |-> 0, data |-> 0, error |-> "none"]

InitUpload ==
    /\ pc = "upload"
    /\ ParseIdle
    /\ NumIdle
    /\ items_in = << >>
    /\ items = << >>
    /\ idx = 1
    /\ order_out = "running"
    /\ CallIdle
    /\ FormatIdle
    /\ folder = [p \in Paths |-> 0]
    /\ \E names \in [Requests -> RawNames] :
          req = [r \in Requests |-> NewRequest(names[r])]

\* the handler of request r answers with an error
Answer(r, code, exc) ==
    req' = [req EXCEPT ![r].pc = "done", ![r].status = code, ![r].error = exc]

UploadFrame == UNCHANGED <<pc, parseVars, numVars, items_in, items, idx,
                           order_out, callVars, formatVars>>

\* lines 698-707
CheckFile(r) ==
    /\ req[r].pc = "check"
    /\ IF req[r].name = << >> \/ ~allowed_file(req[r].name)
       THEN Answer(r, 400, "rejected")
       ELSE req' = [req EXCEPT ![r].pc = "save"]
    /\ UNCHANGED folder
    /\ UploadFrame

\* lines 711-713
SaveFile(r) ==
    /\ req[r].pc = "save"
    /\ LET filepath == secure_filename(req[r].name)
       IN  /\ req' = [req EXCEPT ![r].pc = "exists", ![r].path = filepath]
           /\ folder' = [folder EXCEPT ![filepath] = r]
    /\ UploadFrame

\* line 716 entering extract_order_data: lines 140-142
FileExists(r) ==
    /\ req[r].pc = "exists"
    /\ IF folder[req[r].path] = 0
       THEN Answer(r, 500, "FileNotFoundError")
       ELSE req' = [req EXCEPT ![r].pc = "read"]
    /\ UNCHANGED folder
    /\ UploadFrame

\* line 144
ReadBytes(r) ==
    /\ req[r].pc = "read"
    /\ IF folder[req[r].path] = 0
       THEN Answer(r, 500, "FileNotFoundError")
       ELSE req' = [req EXCEPT ![r].pc = "extract",
                               ![r].read = folder[req[r].path]]
    /\ UNCHANGED folder
    /\ UploadFrame

\* lines 145-158 and 238-267: the extraction of the bytes read
ExtractData(r) ==
    /\ req[r].pc = "extract"
    /\ \/ req' = [req EXCEPT ![r].pc = "remove", ![r].data = req[r].read]
       \/ Answer(r, 500, "ExtractionError")
    /\ UNCHANGED folder
    /\ UploadFrame

\* line 719
RemoveFile(r) ==
    /\ req[r].pc = "remove"
    /\ IF folder[req[r].path] = 0
       THEN /\ Answer(r, 500, "FileNotFoundError")
            /\ UNCHANGED folder
       ELSE /\ req' = [req EXCEPT ![r].pc = "respond"]
            /\ folder' = [folder EXCEPT ![req[r].path] = 0]
    /\ UploadFrame

\* lines 721-724
Respond(r) ==
    /\ req[r].pc = "respond"
    /\ req' = [req EXCEPT ![r].pc = "done", ![r].status = 200]
    /\ UNCHANGED folder
    /\ UploadFrame

NextUpload ==
    \E r \in Requests :
        \/ CheckFile(r)
        \/ SaveFile(r)
        \/ FileExists(r)
        \/ ReadBytes(r)
        \/ ExtractData(r)
        \/ RemoveFile(r)
        \/ Respond(r)

SpecUpload == InitUpload /\ [][NextUpload]_vars

\* ------------------------------------------------------------------------
\* format_fr_pdf called on one cell of the exported table.  A number with
\* two nearest multiples of 10^-decimals is left out: its rendering follows
\* the binary value of the float.
\* ------------------------------------------------------------------------
InitFormat ==
    /\ pc = "format"
    /\ ParseIdle
    /\ NumIdle
    /\ items_in = << >>
    /\ items = << >>
    /\ idx = 1
    /\ order_out = "running"
    /\ CallIdle
    /\ UploadIdle
    /\ fmt_number \in FormatNumbers
    /\ fmt_decimals \in FormatDecimalsValues
    /\ fmt_number # None => ~IsTie(Units(fmt_number), fmt_decimals)
    /\ fmt_out = << >>

CallFormat ==
    /\ pc = "format"
    /\ pc' = "done"
    /\ fmt_out' = format_fr_pdf(fmt_number, fmt_decimals)
    /\ UNCHANGED <<fmt_number, fmt_decimals>>
    /\ UNCHANGED <<parseVars, numVars, items_in, items, idx, order_out,
                   callVars, uploadVars>>

NextFormat == CallFormat

SpecFormat == InitFormat /\ [][NextFormat]_vars

\* ------------------------------------------------------------------------
\* Properties of tolerant_parse_json_from_text
\* ------------------------------------------------------------------------
Last(seq) == seq[Len(seq)]

\* what the n-th strategy of StrategyOrder does on a text, written from the
\* strategy descriptions: 1 and 2 parse the whole text, 3 locates the
\* candidate, 4..7 work on the candidate
Attempt(n, text) ==
    LET cand == extract_first_json_candidate(text)
    IN  CASE n = 1 -> json_loads(clean_markdown_json(text))
          [] n = 2 -> json_loads(text)
          [] n = 3 -> [ok |-> HasCandidate(text), v |-> None, i |-> 0]
          [] n = 4 -> IF HasCandidate(text) THEN json_loads(cand) ELSE Failure
          [] n = 5 -> IF HasCandidate(text)
                      THEN json_loads(remove_trailing_commas(cand))
                      ELSE Failure
          [] n = 6 -> IF HasCandidate(text)
                      THEN try_ast_literal_eval(cand) ELSE Failure
          [] n = 7 -> IF HasCandidate(text)
                      THEN json_loads(remove_trailing_commas(
                               SingleToDoubleQuotes(cand)))
                      ELSE Failure

\* the strategies that return a value
Returning == {1, 2, 4, 5, 6, 7}

Done == pc = "done"
Returned == pc = "done" /\ outcome = "returned"

\* C1: the strategies are tried in the fixed order direct_cleaned,
\* direct_raw, locate, as_is, no_trailing_commas, literal_eval, requoted;
\* a strategy is tried only after every earlier one failed; the call returns
\* the value of the first strategy that succeeds and raises only when none
\* does (no candidate located, or all four candidate strategies failed).
C1_OrderedFirstSuccess ==
    /\ Len(tried) <= Len(StrategyOrder)
    /\ \A n \in 1..Len(tried) :
          /\ tried[n][1] = StrategyOrder[n]
          /\ tried[n][2] = Attempt(n, raw_text).ok
          /\ n < Len(tried) => (tried[n][2] <=> n = 3)
    /\ Returned =>
          /\ Len(tried) \in Returning
          /\ Last(tried)[2]
          /\ result = Attempt(Len(tried), raw_text).v
          /\ \A n \in Returning : n < Len(tried) => ~Attempt(n, raw_text).ok
    /\ (Done /\ ~Returned) =>
          /\ \A n \in Returning : ~Attempt(n, raw_text).ok
          /\ \/ outcome = "NoJsonBlock" /\ Len(tried) = 3
                   /\ ~HasCandidate(raw_text)
             \/ outcome = "ParseFailed" /\ Len(tried) = 7
                   /\ HasCandidate(raw_text)
    /\ ~Done => outcome = "running"

\* the last strategy returned the value after the six before it were tried
C1_Witness ==
    /\ Returned
    /\ Len(tried) = 7
    /\ \A n \in {1, 2, 4, 5, 6} : ~tried[n][2]

NoBrace(text) == ~Contains(text, "{") /\ ~Contains(text, "[")

\* the text is itself a JSON document, fence-stripped or as written
WholeTextIsJson(text) ==
    json_loads(clean_markdown_json(text)).ok \/ json_loads(text).ok

\* C2 as stated: a text without { and [ always ends in the no-JSON-found
\* error.
C2_NoBraceAlwaysNoJson ==
    (Done /\ NoBrace(raw_text)) => outcome = "NoJsonBlock"

\* C2 amended: a text without { and [ that is not itself a JSON document
\* (a bare number, a quoted string, true, false, null, NaN, Infinity) ends
\* in the no-JSON-found error, never in a value or the parse-failure error;
\* a text that is itself such a JSON scalar is returned as that scalar.
C2_NoBraceNoJson ==
    (Done /\ NoBrace(raw_text)) =>
        IF WholeTextIsJson(raw_text)
        THEN outcome = "returned" /\ result.t \notin {"dict", "list"}
        ELSE outcome = "NoJsonBlock"

\* a brace-free text that is no JSON document was rejected
C2_Witness ==
    /\ Done
    /\ NoBrace(raw_text)
    /\ raw_text # << >>
    /\ ~WholeTextIsJson(raw_text)
    /\ outcome = "NoJsonBlock"

\* C3: a valid JSON text J inside a fenced block, tagged json in any letter
\* case or untagged, parses to the value of J itself.
C3_FencedEqualsDirect ==
    (Done /\ family = "fenced") =>
        outcome = "returned" /\ result = json_loads(J).v

\* a block tagged in upper case was parsed to the end
C3_Witness ==
    /\ Returned
    /\ family = "fenced"
    /\ \E i \in 1..Len(raw_text) :
          StartsWithAt(raw_text, i, Fence \o <<"J", "S", "O", "N">>)
    /\ result = json_loads(J).v

\* C4: a JSON object with one trailing comma before a closing brace parses
\* to the value of the object without that comma, so every string value is
\* the string written in the input.
C4_TrailingCommaValue ==
    (Done /\ family = "trailing") =>
        outcome = "returned" /\ result = json_loads(J).v

\* C5 as stated: prose + J + prose, the prose free of braces and brackets,
\* parses to the value of J and the located candidate is J.
C5_ProseGivesJ ==
    (Done /\ family = "prose") =>
        /\ outcome = "returned"
        /\ result = json_loads(J).v
        /\ extract_first_json_candidate(raw_text) = J

\* C5 amended: the candidate located in prose + J + prose is exactly J, and
\* the call returns the value of J unless the whole text is itself a JSON
\* document (J between two double quotes is a JSON string), which is then
\* returned instead.
C5_ProseCandidateIsJ ==
    family = "prose" =>
        /\ Len(tried) >= 3 => candidate = J
        /\ Done =>
              /\ extract_first_json_candidate(raw_text) = J
              /\ outcome = "returned"
              /\ result = IF json_loads(clean_markdown_json(raw_text)).ok
                          THEN json_loads(clean_markdown_json(raw_text)).v
                          ELSE IF json_loads(raw_text).ok
                          THEN json_loads(raw_text).v
                          ELSE json_loads(J).v

\* J was located between non-empty prose and its value returned
C5_Witness ==
    /\ Returned
    /\ family = "prose"
    /\ Len(raw_text) > Len(J) + 1
    /\ raw_text[1] # J[1]
    /\ candidate = J
    /\ result = json_loads(J).v

\* ------------------------------------------------------------------------
\* Properties of normalize_number
\* ------------------------------------------------------------------------
NumDone == pc = "done" /\ num_out # Pending

Formatted == num_form # NoForm

\* C6 as stated: a number written in the French or in the English
\* convention is normalized to the number it denotes.
C6_EitherConvention ==
    (NumDone /\ Formatted) => num_out = Value(Denoted(num_form))

\* the writings normalize_number reads as the number they denote
Readable(f) ==
    \/ f.conv \in {"fr_space", "fr_nbsp"}
    \/ f.groups = << >>
    \/ f.conv = "fr_dot" /\ f.frac # << >>

\* C6 amended: normalize_number returns the denoted number for a French
\* writing whose thousands separator is a space or a non-breaking space,
\* for a French writing with "." thousands separators that has a "," decimal
\* part, and for a writing without thousands separator whose decimal
\* separator is "," or "."  ("5 000,0" gives 5000.0, "1.234,56" gives
\* 1234.56, "20.5" gives 20.5).  An English "," thousands separator and a
\* "."-grouped integer without decimal part are not read as the number they
\* denote ("1,234.56" gives 1.23456, "1.234" gives 1.234).
C6_ReadableConventions ==
    (NumDone /\ Formatted) =>
        /\ Readable(num_form) => num_out = Value(Denoted(num_form))
        /\ ~Readable(num_form) => num_out # Value(Denoted(num_form))
        /\ num_in = PyStr(<<"1", ",", "2", "3", "4", ".", "5", "6">>) =>
              num_out = Value(PyFloat(123456, -5))
        /\ num_in = PyStr(<<"5", " ", "0", "0", "0", ",", "0">>) =>
              num_out = Value(PyFloat(5000, 0))
        /\ num_in = PyStr(<<"1", ".", "2", "3", "4", ",", "5", "6">>) =>
              num_out = Value(PyFloat(123456, -2))
        /\ num_in = PyStr(<<"2", "0", ".", "5">>) =>
              num_out = Value(PyFloat(205, -1))

\* "1.234,56" was normalized to 1234.56
C6_Witness ==
    /\ NumDone
    /\ num_form.conv = "fr_dot"
    /\ num_in = PyStr(<<"1", ".", "2", "3", "4", ",", "5", "6">>)
    /\ num_out = Value(PyFloat(123456, -2))

\* C7: normalize_number never raises: it returns None or a number.
C7_NeverRaises ==
    NumDone =>
        /\ num_out.ok
        /\ num_out.v = None \/ num_out.v.t \in {"float", "nonfinite"}

\* ------------------------------------------------------------------------
\* Properties of the item normalization of extract_order_data
\* ------------------------------------------------------------------------
OrderReturned == pc = "done" /\ order_out = "returned"

QtyIn(i) == DictGet(items_in[i], KeyQte)
QtyOut(i) == DictGet(items[i], KeyQte)
VatIn(i) == DictGet(items_in[i], KeyVat)
VatOut(i) == DictGet(items[i], KeyVat)

\* the normalizer finds no number in the value
Unparsable(val) == normalize_number(val).ok /\ normalize_number(val).v = None

\* C8: a quantity that is missing or that the normalizer cannot parse ends
\* absent (null); the output quantity is 0 only when the normalizer found a
\* number in the input.
C8_UnparsableQuantityAbsent ==
    OrderReturned =>
        \A i \in 1..Len(items) :
            /\ Unparsable(QtyIn(i)) => QtyOut(i) = None
            /\ QtyOut(i) = PyInt(0, 0) => ~Unparsable(QtyIn(i))

\* the integer k is the finite float x truncated toward zero
IsTruncationOf(k, x) ==
    LET m == x.v[1]
        e == x.v[2]
        n == k.v[1] * 10 ^ k.v[2]
    IN  IF e >= 0 THEN k.v = x.v
        ELSE /\ Abs(n) * 10 ^ (-e) <= Abs(m)
             /\ Abs(m) < (Abs(n) + 1) * 10 ^ (-e)
             /\ n * m >= 0

\* C9: in the returned items every quantity is absent (null) or an integer,
\* and where the normalizer yields a number for the input quantity the
\* output is that number truncated toward zero ("5 000,0" gives 5000).
C9_QuantityIsInteger ==
    OrderReturned =>
        \A i \in 1..Len(items) :
            /\ QtyOut(i) = None \/ QtyOut(i).t = "int"
            /\ (QtyIn(i) # None /\ ~Unparsable(QtyIn(i))) =>
                  /\ QtyOut(i).t = "int"
                  /\ IsTruncationOf(QtyOut(i), normalize_number(QtyIn(i)).v)
            /\ QtyIn(i) = PyStr(<<"5", " ", "0", "0", "0", ",", "0">>) =>
                  QtyOut(i) = PyInt(5000, 0)

\* "-1,5" was truncated to -1 in a returned document
C9_Witness ==
    /\ OrderReturned
    /\ \E i \in 1..Len(items) :
          /\ QtyIn(i) = PyStr(<<"-", "1", ",", "5">>)
          /\ QtyOut(i) = PyInt(-1, 0)

\* the VAT text with its commas made dots and its percent signs removed
PercentBody(text) ==
    Strip(Replace(Strip(Replace(text, ",", <<".">>)), "%", << >>))

\* C10: a VAT rate given as a text with a percent sign becomes the plain
\* number written before the sign, commas read as dots ("20,00%" gives
\* 20.0); a rate that is not a text is left as it is; a text that does not
\* parse becomes absent (null), never zero.
C10_VatRate ==
    OrderReturned =>
        \A i \in 1..Len(items) :
            /\ VatIn(i).t # "str" =>
                  /\ VatOut(i) = VatIn(i)
                  /\ HasKey(items[i], KeyVat) = HasKey(items_in[i], KeyVat)
            /\ (VatIn(i).t = "str" /\ Contains(VatIn(i).v, "%")) =>
                  VatOut(i) = IF FloatOfText(PercentBody(VatIn(i).v)).ok
                              THEN FloatOfText(PercentBody(VatIn(i).v)).v
                              ELSE None
            /\ VatIn(i).t = "str" =>
                  /\ VatOut(i) = None \/ VatOut(i).t \in {"float", "nonfinite"}
                  /\ VatOut(i) = PyFloat(0, 0) =>
                        \E k \in 1..Len(VatIn(i).v) : VatIn(i).v[k] = "0"
            /\ VatIn(i) = PyStr(<<"2", "0", ",", "0", "0", "%">>) =>
                  VatOut(i) = PyFloat(20, 0)

\* "20,00%" became 20.0 and an unparsable rate became null
C10_Witness ==
    /\ OrderReturned
    /\ \E i \in 1..Len(items) :
          /\ VatIn(i) = PyStr(<<"2", "0", ",", "0", "0", "%">>)
          /\ VatOut(i) = PyFloat(20, 0)
    /\ \E i \in 1..Len(items) :
          /\ VatIn(i) = PyStr(<<"5", "%">>)
          /\ VatOut(i) = PyFloat(5, 0)

\* ------------------------------------------------------------------------
\* Properties of the price fields and of the item sequence
\* ------------------------------------------------------------------------
PriceKeys == {KeyPU, KeyTotal}

\* C11: in a returned document the unit price and the line total of each
\* item, when present and not null, are normalize_number of the input value;
\* a value the normalizer cannot parse is null, never zero; a missing field
\* stays missing and a null field stays null.
C11_PricesNormalized ==
    OrderReturned =>
        \A i \in 1..Len(items) : \A f \in PriceKeys :
            LET in == DictGet(items_in[i], f)
                out == DictGet(items[i], f)
            IN  /\ HasKey(items[i], f) = HasKey(items_in[i], f)
                /\ in = None => out = None
                /\ in # None => out = normalize_number(in).v
                /\ Unparsable(in) => out = None
                /\ out = PyFloat(0, 0) => ~Unparsable(in)

\* "1,5" became 1.5, an unparsable price became null and a missing total
\* stayed missing
C11_Witness ==
    /\ OrderReturned
    /\ \E i \in 1..Len(items) :
          /\ DictGet(items_in[i], KeyPU) = PyStr(<<"1", ",", "5">>)
          /\ DictGet(items[i], KeyPU) = PyFloat(15, -1)
    /\ \E i \in 1..Len(items) :
          /\ DictGet(items_in[i], KeyPU) = PyStr(<<"x">>)
          /\ HasKey(items[i], KeyPU)
          /\ DictGet(items[i], KeyPU) = None
    /\ \E i \in 1..Len(items) :
          /\ ~HasKey(items_in[i], KeyTotal)
          /\ ~HasKey(items[i], KeyTotal)

\* the call has ended
Ended == pc = "done" /\ stage = "end"

\* C12: the items of the returned document are as many as the items of the
\* parsed output and the i-th one is the normalized i-th input item, with
\* its product name: none is dropped, added, duplicated or moved.  While the
\* loop runs the items not yet reached are as they came.
C12_ItemsInOrder ==
    /\ pc = "items" =>
          /\ Len(items) = Len(items_in)
          /\ \A i \in 1..Len(items) :
                /\ i >= idx => items[i] = items_in[i]
                /\ i < idx => items[i] = NormalizeItemFields(items_in[i]).v
    /\ OrderReturned =>
          LET out == DictGet(extracted, KeyItems)
          IN  /\ out.t = "list"
              /\ Len(out.v) = Len(items_in)
              /\ \A i \in 1..Len(items_in) :
                    /\ out.v[i] = NormalizeItemFields(items_in[i]).v
                    /\ DictGet(out.v[i], KeyProduit) =
                          DictGet(items_in[i], KeyProduit)

\* a returned document of two items with different product names
C12_Witness ==
    /\ OrderReturned
    /\ Len(items_in) = 2
    /\ Len(DictGet(extracted, KeyItems).v) = 2
    /\ DictGet(items_in[1], KeyProduit) # DictGet(items_in[2], KeyProduit)
    /\ DictGet(items[2], KeyProduit) = DictGet(items_in[2], KeyProduit)

\* the parsed output is an object without items or with an empty array
NoItems(val) ==
    /\ val.t = "dict"
    /\ HasKey(val, KeyItems) => DictGet(val, KeyItems) = PyList(<< >>)

\* C13: when the parsed output is an object with no items key or with an
\* empty items array, the call does not fail and returns the object with
\* an empty items list.
C13_NoItemsGivesEmpty ==
    (Ended /\ outcome = "returned" /\ NoItems(result)) =>
        /\ order_out = "returned"
        /\ extracted = DictSet(result, KeyItems, PyList(<< >>))

\* an object without the items key was returned with an empty list
C13_Witness ==
    /\ Ended
    /\ outcome = "returned"
    /\ result.t = "dict"
    /\ ~HasKey(result, KeyItems)
    /\ order_out = "returned"
    /\ DictGet(extracted, KeyItems) = PyList(<< >>)

\* the envelope has zero choices: no choices key or an empty list
ZeroChoices(resp) ==
    /\ resp.t = "dict"
    /\ HasKey(resp, KeyChoices) => DictGet(resp, KeyChoices) = PyList(<< >>)

\* C14: an envelope with zero choices makes the call fail with the
\* no-choices error, and no parsing strategy is attempted.
C14_ZeroChoicesFail ==
    (Ended /\ transport = "ok" /\ ZeroChoices(resp_json)) =>
        /\ order_out = "NoChoices"
        /\ tried = << >>
        /\ raw_text = << >>
        /\ outcome = "running"

\* an envelope with an empty choices list failed with the no-choices error
C14_Witness ==
    /\ Ended
    /\ resp_json = PyDict(<< <<KeyChoices, PyList(<< >>)>> >>)
    /\ order_out = "NoChoices"

\* the first choice carries no content: no message, or a message whose
\* content is missing or null (and no delta with a content)
NoContent(resp) ==
    /\ resp.t = "dict"
    /\ DictGet(resp, KeyChoices).t = "list"
    /\ DictGet(resp, KeyChoices).v # << >>
    /\ LET first == DictGet(resp, KeyChoices).v[1]
       IN  /\ first.t = "dict"
           /\ DictGet(first, KeyMessage).t \in {"None", "dict"}
           /\ DictGet(DictGet(first, KeyMessage), KeyContent) = None
           /\ DictGet(first, KeyDelta).t \in {"None", "dict"}
           /\ DictGet(DictGet(first, KeyDelta), KeyContent) = None

\* C15: when the first choice carries no content the call fails with the
\* empty-response error and returns no value.
C15_NoContentFails ==
    (Ended /\ transport = "ok" /\ NoContent(resp_json)) =>
        order_out = "NoChoices"

\* the request failed at transport level
TransportFailed == transport \notin {"none", "ok"}

C17_FieldFailureNeverAborts ==
    (pc = "done" /\ \A i \in 1..Len(items_in) : items_in[i].t = "dict") =>
        order_out = "returned"

\* ------------------------------------------------------------------------
\* Properties of the literal-evaluation strategy
\* ------------------------------------------------------------------------
\* the strings in a value, the keys of its dicts included
RECURSIVE StringsIn(_)
StringsIn(val) ==
    CASE val.t = "str" -> {val.v}
      [] val.t \in {"list", "tuple", "set"} ->
            UNION {StringsIn(val.v[n]) : n \in 1..Len(val.v)}
      [] val.t = "dict" ->
            UNION {StringsIn(val.v[n][1]) \cup StringsIn(val.v[n][2]) :
                       n \in 1..Len(val.v)}
      [] OTHER -> {}

\* the texts written between two quotes of the same kind
WrittenStrings(s) ==
    {Slice(s, p[1] + 1, p[2] - 1) :
        p \in {q \in (1..Len(s)) \X (1..Len(s)) :
                  /\ q[1] < q[2]
                  /\ s[q[1]] \in {DQ, SQ}
                  /\ s[q[2]] = s[q[1]]
                  /\ \A k \in (q[1] + 1)..(q[2] - 1) : s[k] # s[q[1]]}}

ByLiteralEval ==
    /\ pc = "done"
    /\ outcome = "returned"
    /\ tried # << >>
    /\ tried[Len(tried)] = <<"literal_eval", TRUE>>

\* C20: when the literal-evaluation strategy gives the result, every string
\* of the result is a string written between quotes in the candidate.
C20_StringsAsWritten ==
    ByLiteralEval => StringsIn(result) \subseteq WrittenStrings(candidate)

\* ------------------------------------------------------------------------
\* Properties of upload_file
\* ------------------------------------------------------------------------
\* C18: requests handled concurrently do not touch each other: a request
\* reads only the document it uploaded, a successful answer carries the
\* result for that document, and no request fails because its file is gone.
C18_RequestsIndependent ==
    \A r \in DOMAIN req :
        /\ req[r].read \in {0, r}
        /\ req[r].status = 200 => req[r].data = r
        /\ req[r].error # "FileNotFoundError"

\* the handler of request r has returned after saving its file
ReturnedAccepted(r) == req[r].pc = "done" /\ req[r].path # << >>

\* C21: once the handler has returned for an accepted file, the copy it
\* saved is no longer in the upload folder, whether the extraction succeeded
\* or failed; when every request has returned the folder is empty.
C21_UploadedCopyRemoved ==
    /\ \A r \in DOMAIN req :
          ReturnedAccepted(r) => folder[req[r].path] # r
    /\ (\A r \in DOMAIN req : req[r].pc = "done") =>
          \A p \in DOMAIN folder : folder[p] = 0

\* ------------------------------------------------------------------------
\* Properties of format_fr_pdf
\* ------------------------------------------------------------------------
FormattedNumber ==
    pc = "done" /\ fmt_number # None /\ fmt_decimals >= 1

\* C19: for a number and at least one decimal, the text returned has the
\* French shape (digits grouped in threes with spaces, a comma, exactly
\* fmt_decimals digits) and reads back as the number rounded to
\* fmt_decimals decimals.
C19_FrenchRendering ==
    FormattedNumber =>
        /\ FrenchShape(fmt_out, fmt_decimals)
        /\ FrenchValue(fmt_out, fmt_decimals)
               = RoundedTo(Units(fmt_number), fmt_decimals)

====
